---- MODULE Spec2Model ----
(***************************************************************************)
(* A model of the resume builder: the editor's reading-order sort, section *)
(* hierarchy and ATS scorer (resume-engine), and the server's renderer and *)
(* scorer (resume-egnine-server).                                          *)
(*                                                                         *)
(* Text is a sequence of one-character strings, so that escaping, lower-   *)
(* casing, substring search and the scorer's patterns are computed and not *)
(* assumed.  A property that is absent on a JavaScript object is the value *)
(* Undefined (for text) or NULL (for an id).                               *)
(***************************************************************************)
EXTENDS Integers, Sequences, FiniteSets, TLC

VARIABLES
    elements,   \* the elements of the document (editor state / request body)
    sections,   \* the sections of the document
    op,         \* the operation that produced the current results
    sorted,     \* result of the reading-order sort
    html,       \* the document a renderer returned, as pieces
    tree,       \* result of buildSectionTree: root ids and each node's child ids
    hstack,     \* getSectionHierarchy: the frames of buildHierarchy, innermost last
    hcalls,     \* getSectionHierarchy: the parentId of each call of buildHierarchy so far
    hresult,    \* getSectionHierarchy: the hierarchy returned
    userData,   \* the user data of a request to the server's scorer
    jobDescription, \* the job description the last analysis was given
    analysis,   \* what analyzeResume returned
    serverScore, \* what calculateATSScore returned, or that it threw
    templates,  \* storage.templates: template id -> template data
    resumes,    \* storage.resumes: resume id -> resume data
    issued,     \* the ids generateId has returned, in order
    nextRef,    \* the identity the next object made on the server's heap gets
    request,    \* the last request the server handled
    response,   \* the status and body it answered
    selectedIds, \* useSelection: the ids selected in the editor
    editingItem, \* ResumeBuilder: the item the property drawer edits
    dragState,  \* useDragAndDrop dragStateRef.current
    moves,      \* the mouse moves handled while dragging
    printJob,   \* POST /api/resume/print: the handler's locals while it awaits the browser
    firstRender \* the first document generateResumeHTML returned to a request

\* ------------------------------------------------------------------ bounds

\* Most elements in a document of the sort specification.
MaxItems == 3

\* Most elements in a document of the render specification.
MaxRenderElements == 2

\* Most sections in a document of the hierarchy specification.
MaxTreeSections == 3

\* ------------------------------------------------------------------ values

\* JavaScript null, as the value of an id-valued property.
NULL == "null"

\* An absent text property: a one-token sequence that is no text, so it can be
\* compared with every text and equals none.
Undefined == <<"undefined">>

\* ------------------------------------------------------------------ sorting

\* A comparator's sign is all Array.prototype.sort reads.
Abs(n) == IF n < 0 THEN -n ELSE n

\* Same-line threshold of the reading-order comparator.
LINE_EPS == 20

\* The comparator without its same-line rule.
ReadingOrderCompareByYOnly(a, b) == a.y - b.y

\* (a, b) => Math.abs(a.y - b.y) < 20 ? a.x - b.x : a.y - b.y
ReadingOrderCompare(a, b) ==
    IF Abs(a.y - b.y) < LINE_EPS THEN a.x - b.x ELSE a.y - b.y

\* (a, b) => a.y - b.y
CompareByY(a, b) == a.y - b.y

\* The comparators handed to Array.prototype.sort, by name.
Compare(cmp, a, b) ==
    CASE cmp = "readingOrder" -> ReadingOrderCompare(a, b)
      [] cmp = "y" -> CompareByY(a, b)
      [] cmp = "readingOrderField" -> a.readingOrder - b.readingOrder

\* One step of a stable insertion sort: x goes after the last item of acc that
\* the comparator does not place after it.
SortInsert(cmp, acc, x) ==
    LET n == Len(acc)
        k == CHOOSE j \in 0..n :
                /\ (j = 0 \/ Compare(cmp, acc[j], x) <= 0)
                /\ \A i \in (j + 1)..n : Compare(cmp, acc[i], x) > 0
    IN  SubSeq(acc, 1, k) \o <<x>> \o SubSeq(acc, k + 1, n)

\* [...items].sort(cmp): Array.prototype.sort is stable; for a comparator that
\* is consistent on the items the result is the one stable ordering, computed
\* here by insertion.
ArraySort(cmp, items) ==
    LET f[i \in 0..Len(items)] ==
            IF i = 0 THEN <<>> ELSE SortInsert(cmp, f[i - 1], items[i])
    IN  f[Len(items)]

\* sortByReadingOrder(items), and the same inline sort of generateResumeHTML,
\* getATSContent, getATSExportData and exportATSHTML.
sortByReadingOrder(items) == ArraySort("readingOrder", items)

\* items.filter(el => keep.has(el))
RECURSIVE Filter(_, _)
Filter(items, keep) ==
    IF items = <<>> THEN <<>>
    ELSE (IF Head(items) \in keep THEN <<Head(items)>> ELSE <<>>)
            \o Filter(Tail(items), keep)

Range(s) == {s[i] : i \in DOMAIN s}

\* ------------------------------------------------------------------ text

\* "abc" as text is <<"a", "b", "c">>.  U+2022, the bullet glyph, is the one
\* character written as a longer token.
BULLET == "bullet"

\* U+0060, the grave accent, likewise: a string of the module cannot hold it.
BACKTICK == "backtick"

RECURSIVE FlattenRange(_, _, _)
\* The concatenation of ss[lo] .. ss[hi], by halves.
FlattenRange(ss, lo, hi) ==
    IF lo > hi THEN <<>>
    ELSE IF lo = hi THEN ss[lo]
    ELSE LET mid == (lo + hi) \div 2
         IN  FlattenRange(ss, lo, mid) \o FlattenRange(ss, mid + 1, hi)

\* The concatenation of a sequence of sequences (string +=, Array.join('')).
Flatten(ss) == FlattenRange(ss, 1, Len(ss))

\* A JavaScript truthiness test of a text property: absent and '' are falsy.
Truthy(str) == str # Undefined /\ str # <<>>

\* str || dflt
OrElse(str, dflt) == IF Truthy(str) THEN str ELSE dflt

\* `${str}`: an absent property interpolates as the word undefined.
Interpolate(str) ==
    IF str = Undefined THEN <<"u","n","d","e","f","i","n","e","d">> ELSE str

\* str.replace(/ch/g, by)
ReplaceAll(str, ch, by) ==
    Flatten([i \in DOMAIN str |-> IF str[i] = ch THEN by ELSE <<str[i]>>])

\* escapeHTML without its last replacement: the apostrophe is left alone.
escapeHTMLNoApostrophe(str) ==
    IF ~Truthy(str) THEN <<>>
    ELSE ReplaceAll(ReplaceAll(ReplaceAll(ReplaceAll(str,
            "&", <<"&","a","m","p",";">>),
            "<", <<"&","l","t",";">>),
            ">", <<"&","g","t",";">>),
            "\"", <<"&","q","u","o","t",";">>)

\* server.js / test-api.js escapeHTML(str): five replacements, & first.
escapeHTML(str) ==
    IF ~Truthy(str) THEN <<>>
    ELSE ReplaceAll(ReplaceAll(ReplaceAll(ReplaceAll(ReplaceAll(str,
            "&", <<"&","a","m","p",";">>),
            "<", <<"&","l","t",";">>),
            ">", <<"&","g","t",";">>),
            "\"", <<"&","q","u","o","t",";">>),
            "'", <<"&","#","0","3","9",";">>)

\* useTemplateStorage.js escapeHtml(text): div.textContent = text, then
\* div.innerHTML, which serialises a text node escaping & < > only; an absent
\* text sets the empty string.
escapeHtmlDOM(str) ==
    ReplaceAll(ReplaceAll(ReplaceAll(IF str = Undefined THEN <<>> ELSE str,
            "&", <<"&","a","m","p",";">>),
            "<", <<"&","l","t",";">>),
            ">", <<"&","g","t",";">>)

\* /\s/
IsSpace(ch) == ch \in {" ", "\n", "\t"}

RECURSIVE DropSpaces(_)
DropSpaces(str) ==
    IF str # <<>> /\ IsSpace(Head(str)) THEN DropSpaces(Tail(str)) ELSE str

\* str.replace(/^[bullet\-]\s*/, '')
StripBullet(str) ==
    IF str # <<>> /\ Head(str) \in {BULLET, "-"} THEN DropSpaces(Tail(str)) ELSE str

\* str.startsWith(ch)
StartsWith(str, ch) == str # <<>> /\ Head(str) = ch

\* ------------------------------------------------------------------ html

\* The HTML a renderer returns is a sequence of pieces: the template's own
\* text (lit), and each interpolated value (val) with the element or section
\* it was read from and the property read.
Lit(s) == [kind |-> "lit", text |-> <<s>>, of |-> NULL, field |-> "lit"]
Val(str, id, field) == [kind |-> "val", text |-> str, of |-> id, field |-> field]

\* The document's characters, as the browser receives them.
HtmlText(doc) == Flatten([i \in DOMAIN doc |-> doc[i].text])

\* styles.join('; ')
RECURSIVE JoinStyles(_)
JoinStyles(styles) ==
    IF styles = <<>> THEN <<>>
    ELSE IF Len(styles) = 1 THEN Head(styles)
    ELSE Head(styles) \o <<Lit("; ")>> \o JoinStyles(Tail(styles))

\* buildElementStyles(el) / buildElementStyle(el): the properties that are
\* set, each as `property: value`.
buildElementStyles(el) ==
    JoinStyles(
        (IF el.fontSize # 0
            THEN << <<Lit("font-size: "), Val(<<ToString(el.fontSize)>>, el.id, "fontSize"), Lit("pt")>> >>
            ELSE <<>>)
        \o (IF Truthy(el.fontWeight)
            THEN << <<Lit("font-weight: "), Val(el.fontWeight, el.id, "fontWeight")>> >>
            ELSE <<>>)
        \o (IF Truthy(el.fontFamily)
            THEN << <<Lit("font-family: "), Val(el.fontFamily, el.id, "fontFamily"), Lit(", sans-serif")>> >>
            ELSE <<>>)
        \o (IF Truthy(el.color)
            THEN << <<Lit("color: "), Val(el.color, el.id, "color")>> >>
            ELSE <<>>)
        \o (IF Truthy(el.textAlign)
            THEN << <<Lit("text-align: "), Val(el.textAlign, el.id, "textAlign")>> >>
            ELSE <<>>)
        \o (IF Truthy(el.lineHeight)
            THEN << <<Lit("line-height: "), Val(el.lineHeight, el.id, "lineHeight")>> >>
            ELSE <<>>))

\* !item.parentSection
NoParent(item) == item.parentSection = NULL

\* items.filter(it => it.parentSection === id)
ChildrenOf(items, id) ==
    Filter(items, {it \in Range(items) : it.parentSection = id})

\* A renderer that numbers its documents by the ids issued so far.
generateResumeHTMLNumbered(els, secs, format) ==
    <<Lit(IF format # "Letter" THEN "A4" ELSE "Letter"),
      Val(<<ToString(Len(issued))>>, NULL, "number")>>

\* The <head> of the server's documents; only the page size varies.
HtmlHead(format) ==
    <<Lit(IF format # "Letter" THEN "<head>@page A4</head><body>"
                                ELSE "<head>@page Letter</head><body>")>>

\* server.js generateResumeHTML: one element's <div>.
ServerElementDiv(el) ==
    <<Lit("<div class=\"element "),
      Val(OrElse(el.type, <<"t","e","x","t">>), el.id, "type"),
      Lit("-element\" style=\"")>>
    \o buildElementStyles(el)
    \o <<Lit("\">"),
         Val(escapeHTML(OrElse(el.content, <<>>)), el.id, "content"),
         Lit("</div>")>>

\* server.js generateResumeHTML: one section's <div>, title and elements.
ServerSectionDiv(section, sortedElements) ==
    <<Lit("<div class=\"section\">"),
      Lit("<div class=\"section-title\">"),
      Val(escapeHTML(OrElse(section.title, <<>>)), section.id, "title"),
      Lit("</div>")>>
    \o Flatten([i \in DOMAIN ChildrenOf(sortedElements, section.id) |->
                    ServerElementDiv(ChildrenOf(sortedElements, section.id)[i])])
    \o <<Lit("</div>")>>

\* server.js generateResumeHTML(elements, sections, options)
generateResumeHTML(els, secs, format) ==
    LET sortedElements == ArraySort("readingOrder", els)
        sortedSections ==
            ArraySort("y", Filter(secs, {s \in Range(secs) : NoParent(s)}))
    IN  HtmlHead(format)
        \o Flatten([i \in DOMAIN sortedElements |-> ServerElementDiv(sortedElements[i])])
        \o Flatten([i \in DOMAIN sortedSections |->
                        ServerSectionDiv(sortedSections[i], sortedElements)])
        \o <<Lit("</body></html>")>>

\* ------------------------------------------------------------------ print server

\* Element types and tags the code compares with or falls back to.
TypeText == <<"t","e","x","t">>
TypeListItem == <<"l","i","s","t","-","i","t","e","m">>
TypeImage == <<"i","m","a","g","e">>

\* test-api.js generateResumeHTML: one header element.
PrintHeaderElement(el) ==
    IF el.atsField = "name" \/ el.fontSize > 20
    THEN <<Lit("<div class=\"name\">"),
           Val(escapeHTML(el.content), el.id, "content"), Lit("</div>")>>
    ELSE IF el.atsField = "contact"
    THEN <<Lit("<div class=\"contact\">"),
           Val(escapeHTML(el.content), el.id, "content"), Lit("</div>")>>
    ELSE <<Lit("<div class=\"text-element\" style=\"")>>
         \o buildElementStyles(el)
         \o <<Lit("\">"), Val(escapeHTML(el.content), el.id, "content"), Lit("</div>")>>

\* test-api.js generateResumeHTML: one block of a section's filledContent.
PrintFilledBlock(section, block) ==
    CASE block.type = "entry" ->
            <<Lit("<div class=\"entry\"><div class=\"entry-header\">"),
              Lit("<span class=\"entry-title\">"),
              Val(escapeHTML(block.title), section.id, "filledContent"),
              Lit("</span>")>>
            \o (IF Truthy(block.subtitle)
                THEN <<Lit("<span class=\"entry-date\">"),
                       Val(escapeHTML(block.subtitle), section.id, "filledContent"),
                       Lit("</span>")>>
                ELSE <<>>)
            \o <<Lit("</div>")>>
            \o (IF Len(block.bullets) > 0
                THEN <<Lit("<ul class=\"bullets\">")>>
                     \o Flatten([i \in DOMAIN block.bullets |->
                            <<Lit("<li>"),
                              Val(escapeHTML(block.bullets[i]), section.id, "filledContent"),
                              Lit("</li>")>>])
                     \o <<Lit("</ul>")>>
                ELSE <<>>)
            \o <<Lit("</div>")>>
      [] block.type = "list" ->
            <<Lit("<div class=\"skills-list\">")>>
            \o Flatten([i \in DOMAIN block.items |->
                    <<Lit("<span class=\"skill-item\">"),
                      Val(escapeHTML(block.items[i]), section.id, "filledContent"),
                      Lit("</span>")>>])
            \o <<Lit("</div>")>>
      [] block.type = "text" ->
            <<Lit("<p class=\"summary-text\">"),
              Val(escapeHTML(block.content), section.id, "filledContent"),
              Lit("</p>")>>
      [] OTHER -> <<>>

\* el.type === 'list-item' || el.content?.startsWith(bullet) || el.content?.startsWith('-')
PrintIsBullet(el) ==
    \/ el.type = TypeListItem
    \/ (el.content # Undefined /\ StartsWith(el.content, BULLET))
    \/ (el.content # Undefined /\ StartsWith(el.content, "-"))

\* el.content?.replace(/^[bullet\-]\s*/, '') || ''
PrintBulletText(el) ==
    IF el.content = Undefined THEN <<>> ELSE StripBullet(el.content)

\* test-api.js generateResumeHTML: one subsection, rendered as an entry.
PrintSubsection(sub, sortedElements) ==
    LET subElements == ArraySort("y", ChildrenOf(sortedElements, sub.id))
    IN  <<Lit("<div class=\"entry\"><div class=\"entry-header\">"),
          Lit("<span class=\"entry-title\">"),
          Val(escapeHTML(sub.title), sub.id, "title"),
          Lit("</span></div>")>>
        \o (IF Len(subElements) > 0
            THEN IF \E i \in DOMAIN subElements : PrintIsBullet(subElements[i])
                 THEN <<Lit("<ul class=\"bullets\">")>>
                      \o Flatten([i \in DOMAIN subElements |->
                            <<Lit("<li>"),
                              Val(escapeHTML(PrintBulletText(subElements[i])),
                                  subElements[i].id, "content"),
                              Lit("</li>")>>])
                      \o <<Lit("</ul>")>>
                 ELSE Flatten([i \in DOMAIN subElements |->
                            <<Lit("<p class=\"text-element\">"),
                              Val(escapeHTML(subElements[i].content),
                                  subElements[i].id, "content"),
                              Lit("</p>")>>])
            ELSE <<>>)
        \o <<Lit("</div>")>>

\* test-api.js generateResumeHTML: one root section.
PrintSection(section, secs, sortedElements) ==
    LET sectionElements == ArraySort("y", ChildrenOf(sortedElements, section.id))
        subSections == ArraySort("y", ChildrenOf(secs, section.id))
        filledContent == section.filledContent
    IN  <<Lit("<!-- "), Val(Interpolate(section.title), section.id, "title"), Lit(" -->"),
          Lit("<div class=\"section\">"),
          Lit("<div class=\"section-title\">"),
          Val(escapeHTML(section.title), section.id, "title"),
          Lit("</div>")>>
        \o (IF Len(filledContent) > 0
            THEN Flatten([i \in DOMAIN filledContent |->
                            PrintFilledBlock(section, filledContent[i])])
            ELSE IF Len(subSections) > 0
            THEN Flatten([i \in DOMAIN subSections |->
                            PrintSubsection(subSections[i], sortedElements)])
            ELSE IF section.contentType = "list-items"
            THEN <<Lit("<ul class=\"bullets\">")>>
                 \o Flatten([i \in DOMAIN sectionElements |->
                        <<Lit("<li>"),
                          Val(escapeHTML(PrintBulletText(sectionElements[i])),
                              sectionElements[i].id, "content"),
                          Lit("</li>")>>])
                 \o <<Lit("</ul>")>>
            ELSE Flatten([i \in DOMAIN sectionElements |->
                        <<Lit("<p class=\"text-element\" style=\"")>>
                        \o buildElementStyles(sectionElements[i])
                        \o <<Lit("\">"),
                             Val(escapeHTML(sectionElements[i].content),
                                 sectionElements[i].id, "content"),
                             Lit("</p>")>>]))
        \o <<Lit("</div>")>>

\* test-api.js generateResumeHTML(elements, sections, options): the print
\* server the enhanced server replaces.
printServerHTML(els, secs, format) ==
    LET sortedElements == ArraySort("readingOrder", els)
        sortedSections ==
            ArraySort("y", Filter(secs, {s \in Range(secs) : NoParent(s)}))
        headerElements ==
            Filter(sortedElements, {el \in Range(sortedElements) : NoParent(el)})
    IN  HtmlHead(format)
        \o <<Lit("<div class=\"header\">")>>
        \o Flatten([i \in DOMAIN headerElements |-> PrintHeaderElement(headerElements[i])])
        \o <<Lit("</div>")>>
        \o Flatten([i \in DOMAIN sortedSections |->
                        PrintSection(sortedSections[i], secs, sortedElements)])
        \o <<Lit("</body></html>")>>

\* ------------------------------------------------------------------ browser print and export

\* The name the editor gives a new template.
TemplateName == <<"U","n","t","i","t","l","e","d"," ","R","e","s","u","m","e">>

\* ExportModal.jsx generatePrintHTML(elements, sections, title, options);
\* handleBrowserPrint passes the elements sorted by reading order.
generatePrintHTML(els, secs, title, format) ==
    LET headerElements == Filter(els, {el \in Range(els) : NoParent(el)})
        rootSections ==
            ArraySort("y", Filter(secs, {s \in Range(secs) : NoParent(s)}))
    IN  <<Lit("<head><title>"), Val(title, NULL, "templateName"), Lit("</title>"),
          Lit("@page "), Val(<<format>>, NULL, "format"), Lit("</head><body>")>>
        \o Flatten([i \in DOMAIN headerElements |->
                <<Lit("<div class=\"element\">"),
                  Val(OrElse(headerElements[i].content, <<>>), headerElements[i].id, "content"),
                  Lit("</div>")>>])
        \o Flatten([i \in DOMAIN rootSections |->
                <<Lit("<div class=\"section\">"),
                  Lit("<div class=\"section-title\">"),
                  Val(OrElse(rootSections[i].title, <<>>), rootSections[i].id, "title"),
                  Lit("</div>"), Lit("</div>")>>])
        \o <<Lit("</body></html>")>>

\* A TypeError the renderer does not catch.
Thrown == <<[kind |-> "throw", text |-> <<"TypeError">>, of |-> NULL, field |-> "error"]>>

\* el.semanticTag || (el.fontSize > 20 ? 'h1' : 'p')
ExportTag(el) ==
    IF Truthy(el.semanticTag) THEN el.semanticTag
    ELSE IF el.fontSize > 20 THEN <<"h","1">> ELSE <<"p">>

\* useTemplateStorage.js exportATSHTML: one element of a subsection.
ExportSubElement(el) ==
    IF el.type = TypeListItem \/ (el.content # Undefined /\ StartsWith(el.content, BULLET))
    THEN <<Lit("<ul><li>"),
           Val(escapeHtmlDOM(StripBullet(el.content)), el.id, "content"),
           Lit("</li></ul>")>>
    ELSE <<Lit("<p>"), Val(escapeHtmlDOM(el.content), el.id, "content"), Lit("</p>")>>

\* useTemplateStorage.js exportATSHTML: one root section.
ExportSection(section, secs, sortedElements) ==
    LET sectionElements == ArraySort("y", ChildrenOf(sortedElements, section.id))
        subSections == ArraySort("y", ChildrenOf(secs, section.id))
    IN  <<Lit("<section class=\"section\">"),
          Lit("<h2>"), Val(escapeHtmlDOM(section.title), section.id, "title"), Lit("</h2>")>>
        \o (IF Len(subSections) > 0
            THEN Flatten([i \in DOMAIN subSections |->
                    <<Lit("<div class=\"entry\">"),
                      Lit("<h3>"),
                      Val(escapeHtmlDOM(subSections[i].title), subSections[i].id, "title"),
                      Lit("</h3>")>>
                    \o Flatten([j \in DOMAIN ChildrenOf(sortedElements, subSections[i].id) |->
                            ExportSubElement(ChildrenOf(sortedElements, subSections[i].id)[j])])
                    \o <<Lit("</div>")>>])
            ELSE IF section.contentType = "list-items"
            THEN <<Lit("<ul>")>>
                 \o Flatten([i \in DOMAIN sectionElements |->
                        <<Lit("<li>"),
                          Val(escapeHtmlDOM(StripBullet(sectionElements[i].content)),
                              sectionElements[i].id, "content"),
                          Lit("</li>")>>])
                 \o <<Lit("</ul>")>>
            ELSE Flatten([i \in DOMAIN sectionElements |->
                        <<Lit("<p>"),
                          Val(escapeHtmlDOM(sectionElements[i].content),
                              sectionElements[i].id, "content"),
                          Lit("</p>")>>]))
        \o <<Lit("</section>")>>

\* Whether exportATSHTML calls .replace on an absent content.
ExportThrows(els, secs) ==
    LET roots == Filter(secs, {s \in Range(secs) : NoParent(s)})
    IN  \E i \in DOMAIN roots :
            LET subs == ChildrenOf(secs, roots[i].id)
            IN  IF Len(subs) > 0
                THEN \E j \in DOMAIN subs :
                        \E e \in Range(ChildrenOf(els, subs[j].id)) :
                            e.type = TypeListItem /\ e.content = Undefined
                ELSE /\ roots[i].contentType = "list-items"
                     /\ \E e \in Range(ChildrenOf(els, roots[i].id)) :
                            e.content = Undefined

\* useTemplateStorage.js exportATSHTML()
exportATSHTML(els, secs, title) ==
    LET sortedElements == ArraySort("readingOrder", els)
        headerElements ==
            Filter(sortedElements, {el \in Range(sortedElements) : NoParent(el)})
        rootSections ==
            ArraySort("y", Filter(secs, {s \in Range(secs) : NoParent(s)}))
    IN  IF ExportThrows(els, secs) THEN Thrown
        ELSE <<Lit("<head><title>"), Val(title, NULL, "templateName"),
               Lit("</title></head><body>")>>
             \o Flatten([i \in DOMAIN headerElements |->
                    <<Lit("<"), Val(ExportTag(headerElements[i]), headerElements[i].id, "semanticTag"),
                      Lit(IF headerElements[i].atsField = "contact"
                          THEN " class=\"contact\">" ELSE ">"),
                      Val(escapeHtmlDOM(headerElements[i].content), headerElements[i].id, "content"),
                      Lit("</"), Val(ExportTag(headerElements[i]), headerElements[i].id, "semanticTag"),
                      Lit(">")>>])
             \o Flatten([i \in DOMAIN rootSections |->
                    ExportSection(rootSections[i], secs, sortedElements)])
             \o <<Lit("</body></html>")>>

\* ------------------------------------------------------------------ section hierarchy

treeVars == <<tree, hstack, hcalls, hresult>>

\* No tree built and no traversal under way.
NoTraversal ==
    /\ tree = [roots |-> <<>>, children |-> <<>>]
    /\ hstack = <<>>
    /\ hcalls = <<>>
    /\ hresult = <<>>

\* buildSectionTree's second pass: sec.parentSection && map.has(sec.parentSection)
HasKnownParent(sec, secs) ==
    sec.parentSection # NULL /\ \E j \in DOMAIN secs : secs[j].id = sec.parentSection

\* The second pass with every section that has a parentSection taken for a child.
TreeRootsOnlyNull(secs) ==
    ArraySort("y", Filter(secs, {sec \in Range(secs) : sec.parentSection = NULL}))

\* helpers.js buildSectionTree(sections): the roots, sorted by y.
TreeRoots(secs) ==
    ArraySort("y", Filter(secs, {sec \in Range(secs) : ~HasKnownParent(sec, secs)}))

Ids(items) == [i \in DOMAIN items |-> items[i].id]

\* helpers.js buildSectionTree(sections): the nodes refer to each other, so
\* the tree is the root ids and, by id, each node's children in input order.
buildSectionTree(secs) ==
    [roots |-> Ids(TreeRoots(secs)),
     children |-> [id \in {secs[j].id : j \in DOMAIN secs} |->
                    Ids(Filter(secs, {sec \in Range(secs) :
                            HasKnownParent(sec, secs) /\ sec.parentSection = id}))]]

\* The calls of buildHierarchy that the first call makes, were every section
\* handed to it as a root.
HierarchyRootsAll(secs) == ArraySort("readingOrderField", secs)

\* getSectionHierarchy: buildHierarchy(null) starts from the sections whose
\* parentSection === null.
HierarchyRoots(secs) == ArraySort("readingOrderField", ChildrenOf(secs, NULL))

\* One call of buildHierarchy(parentId) in progress: the sections still to
\* map, and the nodes mapped so far.
Frame(parentId, todo) == [parentId |-> parentId, todo |-> todo, done |-> <<>>]

\* ------------------------------------------------------------------ scorer: text

UpperLetters == <<"A","B","C","D","E","F","G","H","I","J","K","L","M","N","O","P","Q","R","S","T","U","V","W","X","Y","Z">>

LowerLetters == <<"a","b","c","d","e","f","g","h","i","j","k","l","m","n","o","p","q","r","s","t","u","v","w","x","y","z">>

Digits == {"0","1","2","3","4","5","6","7","8","9"}

\* /\w/
WordChars == Range(UpperLetters) \cup Range(LowerLetters) \cup Digits \cup {"_"}

IsWordChar(ch) == ch \in WordChars

LowerOf ==
    [ch \in Range(UpperLetters) |->
        LowerLetters[CHOOSE i \in DOMAIN UpperLetters : UpperLetters[i] = ch]]

\* str.toLowerCase()
toLowerCase(str) ==
    [i \in DOMAIN str |-> IF str[i] \in DOMAIN LowerOf THEN LowerOf[str[i]] ELSE str[i]]

\* sub occurs in str at position i.
OccursAt(str, sub, i) ==
    /\ i + Len(sub) - 1 <= Len(str)
    /\ \A k \in DOMAIN sub : str[i + k - 1] = sub[k]

\* str.includes(sub): sub is empty, or occurs at a position that holds its
\* first character.
Includes(str, sub) ==
    \/ sub = <<>>
    \/ \E i \in {k \in DOMAIN str : str[k] = sub[1]} : OccursAt(str, sub, i)

RECURSIVE Join(_, _)
\* texts.join(sep)
Join(texts, sep) ==
    IF texts = <<>> THEN <<>>
    ELSE IF Len(texts) = 1 THEN Head(texts)
    ELSE Head(texts) \o sep \o Join(Tail(texts), sep)

RECURSIVE Repeat(_, _)
\* str.repeat(n)
Repeat(str, n) == IF n = 0 THEN <<>> ELSE str \o Repeat(str, n - 1)

\* str.split(/\s+/).filter(Boolean).length: the words start where a character
\* that is no space follows a space or begins the text.
WordCount(str) ==
    Cardinality({i \in DOMAIN str :
        ~IsSpace(str[i]) /\ (i = 1 \/ IsSpace(str[i - 1]))})

RECURSIVE SplitWords(_, _, _)
\* str.split(/\s+/) without its empty pieces: cur is the word being read.
SplitWords(str, cur, acc) ==
    LET closed == IF cur = <<>> THEN acc ELSE Append(acc, cur)
    IN  IF str = <<>> THEN closed
        ELSE IF IsSpace(Head(str)) THEN SplitWords(Tail(str), <<>>, closed)
        ELSE SplitWords(Tail(str), Append(cur, Head(str)), acc)

Min(a, b) == IF a < b THEN a ELSE b

Max(a, b) == IF a > b THEN a ELSE b

\* ------------------------------------------------------------------ scorer: constants

\* cleanForJSON.js ATS_FRIENDLY_FONTS
ATS_FRIENDLY_FONTS == <<
    <<"A","r","i","a","l">>,
    <<"C","a","l","i","b","r","i">>,
    <<"C","a","m","b","r","i","a">>,
    <<"G","e","o","r","g","i","a">>,
    <<"G","a","r","a","m","o","n","d">>,
    <<"H","e","l","v","e","t","i","c","a">>,
    <<"T","i","m","e","s"," ","N","e","w"," ","R","o","m","a","n">>,
    <<"T","r","e","b","u","c","h","e","t"," ","M","S">>,
    <<"V","e","r","d","a","n","a">>,
    <<"T","a","h","o","m","a">> >>

\* cleanForJSON.js ATS_SECTION_HEADERS: the aliases of the required headers.
ATS_SECTION_HEADERS ==
    [experience |-> <<
        <<"W","o","r","k"," ","E","x","p","e","r","i","e","n","c","e">>,
        <<"P","r","o","f","e","s","s","i","o","n","a","l"," ","E","x","p","e","r","i","e","n","c","e">>,
        <<"E","m","p","l","o","y","m","e","n","t"," ","H","i","s","t","o","r","y">>,
        <<"W","o","r","k"," ","H","i","s","t","o","r","y">> >>,
     education |-> <<
        <<"A","c","a","d","e","m","i","c"," ","B","a","c","k","g","r","o","u","n","d">>,
        <<"E","d","u","c","a","t","i","o","n","a","l"," ","B","a","c","k","g","r","o","u","n","d">>,
        <<"A","c","a","d","e","m","i","c"," ","H","i","s","t","o","r","y">> >>,
     skills |-> <<
        <<"T","e","c","h","n","i","c","a","l"," ","S","k","i","l","l","s">>,
        <<"C","o","r","e"," ","C","o","m","p","e","t","e","n","c","i","e","s">>,
        <<"A","r","e","a","s"," ","o","f"," ","E","x","p","e","r","t","i","s","e">>,
        <<"P","r","o","f","i","c","i","e","n","c","i","e","s">> >>]

\* Object.values(ATS_KEYWORDS).flat(): six categories of ten; managed is in two.
ATS_KEYWORDS == <<
    <<"l","e","d">>, <<"m","a","n","a","g","e","d">>, <<"d","i","r","e","c","t","e","d">>, <<"s","u","p","e","r","v","i","s","e","d">>, <<"c","o","o","r","d","i","n","a","t","e","d">>, <<"m","e","n","t","o","r","e","d">>, <<"t","r","a","i","n","e","d">>, <<"d","e","l","e","g","a","t","e","d">>, <<"o","v","e","r","s","a","w">>, <<"h","e","a","d","e","d">>,
    <<"a","c","h","i","e","v","e","d">>, <<"a","c","c","o","m","p","l","i","s","h","e","d">>, <<"d","e","l","i","v","e","r","e","d">>, <<"e","x","c","e","e","d","e","d">>, <<"i","m","p","r","o","v","e","d">>, <<"i","n","c","r","e","a","s","e","d">>, <<"r","e","d","u","c","e","d">>, <<"o","p","t","i","m","i","z","e","d">>, <<"s","t","r","e","a","m","l","i","n","e","d">>, <<"s","a","v","e","d">>,
    <<"d","e","v","e","l","o","p","e","d">>, <<"i","m","p","l","e","m","e","n","t","e","d">>, <<"d","e","s","i","g","n","e","d">>, <<"b","u","i","l","t">>, <<"e","n","g","i","n","e","e","r","e","d">>, <<"p","r","o","g","r","a","m","m","e","d">>, <<"a","u","t","o","m","a","t","e","d">>, <<"i","n","t","e","g","r","a","t","e","d">>, <<"d","e","p","l","o","y","e","d">>, <<"m","a","i","n","t","a","i","n","e","d">>,
    <<"p","r","e","s","e","n","t","e","d">>, <<"n","e","g","o","t","i","a","t","e","d">>, <<"c","o","l","l","a","b","o","r","a","t","e","d">>, <<"c","o","m","m","u","n","i","c","a","t","e","d">>, <<"l","i","a","i","s","e","d">>, <<"f","a","c","i","l","i","t","a","t","e","d">>, <<"a","r","t","i","c","u","l","a","t","e","d">>, <<"p","e","r","s","u","a","d","e","d">>, <<"i","n","f","l","u","e","n","c","e","d">>, <<"a","d","v","o","c","a","t","e","d">>,
    <<"a","n","a","l","y","z","e","d">>, <<"e","v","a","l","u","a","t","e","d">>, <<"a","s","s","e","s","s","e","d">>, <<"r","e","s","e","a","r","c","h","e","d">>, <<"i","n","v","e","s","t","i","g","a","t","e","d">>, <<"i","d","e","n","t","i","f","i","e","d">>, <<"d","i","a","g","n","o","s","e","d">>, <<"s","o","l","v","e","d">>, <<"r","e","s","o","l","v","e","d">>, <<"t","r","o","u","b","l","e","s","h","o","t">>,
    <<"o","r","g","a","n","i","z","e","d">>, <<"p","l","a","n","n","e","d">>, <<"s","c","h","e","d","u","l","e","d">>, <<"p","r","i","o","r","i","t","i","z","e","d">>, <<"m","a","n","a","g","e","d">>, <<"a","d","m","i","n","i","s","t","e","r","e","d">>, <<"e","x","e","c","u","t","e","d">>, <<"l","a","u","n","c","h","e","d">>, <<"i","n","i","t","i","a","t","e","d">>, <<"e","s","t","a","b","l","i","s","h","e","d">> >>

\* extractKeywords: commonWords
commonWords == {
    <<"t","h","e">>,
    <<"a">>,
    <<"a","n">>,
    <<"a","n","d">>,
    <<"o","r">>,
    <<"b","u","t">>,
    <<"i","n">>,
    <<"o","n">>,
    <<"a","t">>,
    <<"t","o">>,
    <<"f","o","r">>,
    <<"o","f">>,
    <<"w","i","t","h">>,
    <<"b","y">>,
    <<"f","r","o","m">>,
    <<"a","s">>,
    <<"i","s">>,
    <<"w","a","s">>,
    <<"a","r","e">>,
    <<"w","e","r","e">>,
    <<"b","e","e","n">>,
    <<"b","e">>,
    <<"h","a","v","e">>,
    <<"h","a","s">>,
    <<"h","a","d">>,
    <<"d","o">>,
    <<"d","o","e","s">>,
    <<"d","i","d">>,
    <<"w","i","l","l">>,
    <<"w","o","u","l","d">>,
    <<"c","o","u","l","d">>,
    <<"s","h","o","u","l","d">>,
    <<"m","a","y">>,
    <<"m","i","g","h","t">>,
    <<"m","u","s","t">>,
    <<"s","h","a","l","l">>,
    <<"c","a","n">>,
    <<"n","e","e","d">>,
    <<"o","u","r">>,
    <<"y","o","u","r">>,
    <<"w","e">>,
    <<"y","o","u">>,
    <<"t","h","e","y">>,
    <<"t","h","i","s">>,
    <<"t","h","a","t">>,
    <<"t","h","e","s","e">>,
    <<"t","h","o","s","e">> }

\* ------------------------------------------------------------------ editor scorer

\* A sub-score is kept as the fraction the code divides: num / den.
Frac(num, den) == [num |-> num, den |-> den]

RECURSIVE Distinct(_, _)
\* The members of items in the order of their first occurrence (the insertion
\* order of a Set or of an object's keys); seen holds those already taken.
Distinct(items, seen) ==
    IF items = <<>> THEN <<>>
    ELSE IF Head(items) \in seen THEN Distinct(Tail(items), seen)
    ELSE <<Head(items)>> \o Distinct(Tail(items), seen \cup {Head(items)})

\* getAllContent(): element contents joined by spaces, a space, section titles
\* joined by spaces; all of it lowercased.
getAllContent(els, secs) ==
    toLowerCase(
        Join([i \in DOMAIN els |-> OrElse(els[i].content, <<>>)], <<" ">>)
        \o <<" ">>
        \o Join([j \in DOMAIN secs |-> OrElse(secs[j].title, <<>>)], <<" ">>))

requiredHeaders == <<"experience", "education", "skills">>

\* The header names as text.
HeaderText ==
    [experience |-> <<"e","x","p","e","r","i","e","n","c","e">>,
     education |-> <<"e","d","u","c","a","t","i","o","n">>,
     skills |-> <<"s","k","i","l","l","s">>]

\* sections.map(s => s.title?.toLowerCase() || '')
SectionTitles(secs) ==
    [j \in DOMAIN secs |->
        IF Truthy(secs[j].title) THEN toLowerCase(secs[j].title) ELSE <<>>]

\* title.includes(header) || aliases.some(alias => title.includes(alias.toLowerCase()))
HeaderFound(titles, header) ==
    \E j \in DOMAIN titles :
        \/ Includes(titles[j], HeaderText[header])
        \/ \E a \in DOMAIN ATS_SECTION_HEADERS[header] :
              Includes(titles[j], toLowerCase(ATS_SECTION_HEADERS[header][a]))

\* checkRequiredSections()
checkRequiredSections(secs) ==
    LET titles == SectionTitles(secs)
        present == SelectSeq(requiredHeaders, LAMBDA h : HeaderFound(titles, h))
        missing == SelectSeq(requiredHeaders, LAMBDA h : ~HeaderFound(titles, h))
    IN  [missing |-> missing, present |-> present,
         score |-> Frac(Len(present) * 100, Len(requiredHeaders))]

\* /[\w.-]/
IsAddressChar(ch) == IsWordChar(ch) \/ ch \in {".", "-"}

\* /[\w.-]+@[\w.-]+\.\w+/.test(str)
EmailTest(str) ==
    \E i \in 2..Len(str) :
        /\ str[i] = "@"
        /\ IsAddressChar(str[i - 1])
        /\ \E j \in (i + 2)..(Len(str) - 1) :
              /\ str[j] = "."
              /\ IsWordChar(str[j + 1])
              /\ \A k \in (i + 1)..(j - 1) : IsAddressChar(str[k])

\* /[-.\s]/
IsPhoneSeparator(ch) == ch \in {"-", "."} \/ IsSpace(ch)

AllDigits(str, from, to) == \A k \in from..to : str[k] \in Digits

\* /\(?\d{3}\)?[-.\s]?\d{3}[-.\s]?\d{4}/.test(str): a match starts at some i
\* that holds a parenthesis or a digit, and takes or leaves each of the four
\* optional characters.
PhoneTest(str) ==
    \E i \in {k \in DOMAIN str : str[k] = "(" \/ str[k] \in Digits} : \E open \in {0, 1} :
        LET d1 == i + open
        IN  /\ d1 + 9 <= Len(str)
            /\ open = 1 => str[i] = "("
            /\ AllDigits(str, d1, d1 + 2)
            /\ \E close, sep1 \in {0, 1} :
                LET d2 == d1 + 3 + close + sep1
                IN  /\ d2 + 6 <= Len(str)
                    /\ close = 1 => str[d1 + 3] = ")"
                    /\ sep1 = 1 => IsPhoneSeparator(str[d2 - 1])
                    /\ AllDigits(str, d2, d2 + 2)
                    /\ \E sep2 \in {0, 1} :
                        LET d3 == d2 + 3 + sep2
                        IN  /\ d3 + 3 <= Len(str)
                            /\ sep2 = 1 => IsPhoneSeparator(str[d3 - 1])
                            /\ AllDigits(str, d3, d3 + 3)

\* The keys of checkContactInfo's checks object, in the order written.
ContactKeys == <<"email", "phone", "linkedin", "location">>

\* checkContactInfo(): location is the constant false.
checkContactInfo(content) ==
    LET checks == [email |-> EmailTest(content),
                   phone |-> PhoneTest(content),
                   linkedin |-> Includes(toLowerCase(content), <<"l","i","n","k","e","d","i","n">>),
                   location |-> FALSE]
        found == Len(SelectSeq(ContactKeys, LAMBDA k : checks[k]))
    IN  [checks |-> checks,
         score |-> Frac(found * 100, Len(ContactKeys)),
         missing |-> SelectSeq(ContactKeys, LAMBDA k : ~checks[k])]

\* checkFontCompatibility(): the distinct el.fontFamily || 'Arial'.
checkFontCompatibility(els) ==
    LET usedFonts == Distinct([i \in DOMAIN els |->
                                OrElse(els[i].fontFamily, <<"A","r","i","a","l">>)], {})
        compatible == SelectSeq(usedFonts, LAMBDA f : f \in Range(ATS_FRIENDLY_FONTS))
        incompatible == SelectSeq(usedFonts, LAMBDA f : f \notin Range(ATS_FRIENDLY_FONTS))
    IN  [compatible |-> compatible, incompatible |-> incompatible,
         score |-> IF usedFonts = <<>> THEN Frac(100, 1)
                   ELSE Frac(Len(compatible) * 100, Len(usedFonts))]

\* text.replace(/[^\w\s]/g, '')
StripPunctuation(str) == SelectSeq(str, LAMBDA ch : IsWordChar(ch) \/ IsSpace(ch))

\* How often word occurs in words.
Frequency(words, word) == Cardinality({i \in DOMAIN words : words[i] = word})

\* One step of the stable sort by falling frequency: word goes behind every
\* entry that is at least as frequent.
FrequencyInsert(words, acc, word) ==
    LET before == {i \in DOMAIN acc :
                      Frequency(words, acc[i]) >= Frequency(words, word)}
        n == IF before = {} THEN 0
             ELSE CHOOSE i \in before : \A k \in before : k <= i
    IN  SubSeq(acc, 1, n) \o <<word>> \o SubSeq(acc, n + 1, Len(acc))

\* extractKeywords(text): the words longer than 3 that are no common word, by
\* falling frequency, the first 20.  Object.entries lists the words in the
\* order of their first occurrence (words that are canonical array indices
\* would come first; the job descriptions here hold none).
extractKeywords(text) ==
    LET words == SelectSeq(SplitWords(StripPunctuation(toLowerCase(text)), <<>>, <<>>),
                           LAMBDA w : Len(w) > 3 /\ w \notin commonWords)
        keys == Distinct(words, {})
        f[i \in 0..Len(keys)] ==
            IF i = 0 THEN <<>> ELSE FrequencyInsert(words, f[i - 1], keys[i])
        byFrequency == f[Len(keys)]
    IN  SubSeq(byFrequency, 1, Min(20, Len(byFrequency)))

\* The keyword score without its cap.
KeywordScoreUncapped(found) == found * 5

\* Math.min(100, foundKeywords.size * 5)
KeywordScore(found) == Min(100, found * 5)

\* The keywords of every category, each once: what a Set of found keywords
\* can hold.
Keywords == Distinct(ATS_KEYWORDS, {})

\* The first two characters of a text of two or more.
Prefix(str) == <<str[1], str[2]>>

\* keyword.toLowerCase() of the keywords, by the two characters each begins
\* with (the shortest keyword has three).
KeywordsByFirst ==
    [pre \in {Prefix(toLowerCase(kw)) : kw \in Range(Keywords)} |->
        {toLowerCase(kw) : kw \in {k \in Range(Keywords) : Prefix(toLowerCase(k)) = pre}}]

\* The lowercased keywords that content.includes(): a keyword is included when
\* it occurs at some position, and only a keyword that begins with the two
\* characters at a position can occur there.
IncludedKeywords(content) ==
    UNION {{kw \in KeywordsByFirst[<<content[i], content[i + 1]>>] :
                OccursAt(content, kw, i)} :
              i \in {k \in 1..(Len(content) - 1) :
                        <<content[k], content[k + 1]>> \in DOMAIN KeywordsByFirst}}

\* checkKeywords with five points taken off for every keyword of the job
\* description that the resume lacks.
checkKeywordsPenalised(content, jd) ==
    LET included == IncludedKeywords(content)
        found == SelectSeq(Keywords, LAMBDA kw : toLowerCase(kw) \in included)
        missing == IF Truthy(jd)
                   THEN SelectSeq(extractKeywords(jd),
                                  LAMBDA kw : ~Includes(content, toLowerCase(kw)))
                   ELSE <<>>
    IN  [found |-> found, missing |-> missing,
         score |-> Frac(Max(0, KeywordScore(Len(found)) - 5 * Len(missing)), 1)]

\* checkKeywords(jobDescription)
checkKeywords(content, jd) ==
    LET included == IncludedKeywords(content)
        found == SelectSeq(Keywords, LAMBDA kw : toLowerCase(kw) \in included)
        missing == IF Truthy(jd)
                   THEN SelectSeq(extractKeywords(jd),
                                  LAMBDA kw : ~Includes(content, toLowerCase(kw)))
                   ELSE <<>>
    IN  [found |-> found, missing |-> missing,
         score |-> Frac(KeywordScore(Len(found)), 1)]

\* /[^\w\s.,!?@#$%&*()-]/
IsSpecialChar(ch) ==
    ~(IsWordChar(ch) \/ IsSpace(ch)
        \/ ch \in {".", ",", "!", "?", "@", "#", "$", "%", "&", "*", "(", ")", "-"})

ComplexLayoutIssue ==
    [type |-> "warning",
     message |-> "Complex multi-column layouts may not parse correctly in some ATS systems"]

ImagesIssue ==
    [type |-> "error", message |-> "Images are not readable by ATS systems"]

SpecialCharsIssue ==
    [type |-> "warning",
     message |-> "Excessive special characters may cause parsing issues"]

ThinContentIssue ==
    [type |-> "info",
     message |-> "Resume content seems thin. Consider adding more detail."]

\* checkFormatting()
checkFormatting(els, secs, content) ==
    LET hasComplexLayout ==
            \E j \in DOMAIN secs : /\ secs[j].direction = "horizontal"
                                   /\ secs[j].contentType = "list-sections"
        hasImages == \E i \in DOMAIN els : els[i].type = TypeImage
        specialChars == Cardinality({i \in DOMAIN content : IsSpecialChar(content[i])})
        wordCount == WordCount(content)
    IN  [issues |->
            (IF hasComplexLayout THEN <<ComplexLayoutIssue>> ELSE <<>>)
            \o (IF hasImages THEN <<ImagesIssue>> ELSE <<>>)
            \o (IF specialChars > 10 THEN <<SpecialCharsIssue>> ELSE <<>>)
            \o (IF wordCount < 100 THEN <<ThinContentIssue>> ELSE <<>>),
         score |-> Frac(Max(0, 100 - (IF hasComplexLayout THEN 10 ELSE 0)
                                   - (IF hasImages THEN 20 ELSE 0)
                                   - (IF specialChars > 10 THEN 5 ELSE 0)
                                   - (IF wordCount < 100 THEN 10 ELSE 0)), 1)]

\* Five equal weights.
weightsUniform ==
    [sections |-> 20, contact |-> 20, fonts |-> 20, keywords |-> 20,
     formatting |-> 20]

\* analyzeResume: the weights, in hundredths.
weights == [sections |-> 25, contact |-> 15, fonts |-> 10, keywords |-> 30,
            formatting |-> 20]

\* Math.round(num / den) for num >= 0, den > 0: halves go up.
MathRound(num, den) == (2 * num + den) \div (2 * den)

\* Math.round of the weighted sum of the five sub-scores, as an exact fraction
\* over the product of the denominators.  (The code sums IEEE doubles; the two
\* differ at most where the exact sum is within rounding error of a half.)
WeightedTotal(s, c, f, k, m) ==
    LET den == s.den * c.den * f.den * k.den * m.den
        num == weights.sections * s.num * (den \div s.den)
               + weights.contact * c.num * (den \div c.den)
               + weights.fonts * f.num * (den \div f.den)
               + weights.keywords * k.num * (den \div k.den)
               + weights.formatting * m.num * (den \div m.den)
    IN  MathRound(num, 100 * den)

\* analyzeResume(jobDescription): the five checks, the rounded weighted total,
\* and the suggestions pushed check by check.
analyzeResume(els, secs, jd) ==
    LET content == getAllContent(els, secs)
        sectionCheck == checkRequiredSections(secs)
        contactCheck == checkContactInfo(content)
        fontCheck == checkFontCompatibility(els)
        keywordCheck == checkKeywords(content, jd)
        formatCheck == checkFormatting(els, secs, content)
        newSuggestions ==
            (IF Len(sectionCheck.missing) > 0
             THEN <<[type |-> "section", priority |-> "high",
                     data |-> sectionCheck.missing]>> ELSE <<>>)
            \o (IF Len(contactCheck.missing) > 0
                THEN <<[type |-> "contact", priority |-> "high",
                        data |-> contactCheck.missing]>> ELSE <<>>)
            \o (IF Len(fontCheck.incompatible) > 0
                THEN <<[type |-> "font", priority |-> "medium",
                        data |-> fontCheck.incompatible]>> ELSE <<>>)
            \o (IF Len(keywordCheck.missing) > 0
                THEN <<[type |-> "keyword", priority |-> "medium",
                        data |-> keywordCheck.missing]>> ELSE <<>>)
            \o [i \in DOMAIN formatCheck.issues |->
                    [type |-> "format",
                     priority |-> IF formatCheck.issues[i].type = "error"
                                  THEN "high" ELSE "low",
                     message |-> formatCheck.issues[i].message]]
    IN  [totalScore |-> WeightedTotal(sectionCheck.score, contactCheck.score,
                                      fontCheck.score, keywordCheck.score,
                                      formatCheck.score),
         breakdown |-> [sections |-> sectionCheck, contact |-> contactCheck,
                        fonts |-> fontCheck, keywords |-> keywordCheck,
                        formatting |-> formatCheck],
         suggestions |-> newSuggestions]

\* ------------------------------------------------------------------ server scorer

\* userData.personalInfo?.[field]: personalInfo is <<>> when absent, else a
\* one-element sequence holding the object; a field the object lacks reads
\* undefined.
PersonalInfo(ud, field) ==
    IF ud.personalInfo = <<>> \/ field \notin DOMAIN ud.personalInfo[1]
    THEN Undefined ELSE ud.personalInfo[1][field]

standardSections == <<<<"e","x","p","e","r","i","e","n","c","e">>,
                      <<"e","d","u","c","a","t","i","o","n">>,
                      <<"s","k","i","l","l","s">>,
                      <<"s","u","m","m","a","r","y">>>>

\* calculateATSScore(userData, sections, elements): s.title.toLowerCase() of a
\* section without title throws a TypeError; otherwise the points of the six
\* checks, capped at 100.  (The timestamp is left out.)
calculateATSScore(ud, secs) ==
    LET hasDescriptions == \E i \in DOMAIN ud.experience :
                                Truthy(ud.experience[i].description)
        hasSections == {j \in DOMAIN secs :
                           \E k \in DOMAIN standardSections :
                               Includes(toLowerCase(secs[j].title), standardSections[k])}
        points ==
            <<[on |-> Truthy(PersonalInfo(ud, "name")), add |-> 5, check |-> "Has name"],
              [on |-> Truthy(PersonalInfo(ud, "email")), add |-> 5, check |-> "Has email"],
              [on |-> Truthy(PersonalInfo(ud, "phone")), add |-> 5, check |-> "Has phone"],
              [on |-> Truthy(PersonalInfo(ud, "location")), add |-> 5, check |-> "Has location"],
              [on |-> Len(ud.experience) > 0, add |-> 15, check |-> "Has work experience"],
              [on |-> Len(ud.experience) > 0 /\ hasDescriptions, add |-> 10,
               check |-> "Experience has descriptions"],
              [on |-> Len(ud.education) > 0, add |-> 15, check |-> "Has education"],
              [on |-> Len(ud.skills) >= 5, add |-> 15, check |-> "Has 5+ skills"],
              [on |-> Len(ud.skills) > 0 /\ Len(ud.skills) < 5, add |-> 8,
               check |-> "Has some skills"],
              [on |-> Truthy(ud.summary) /\ Len(ud.summary) > 50, add |-> 10,
               check |-> "Has professional summary"],
              [on |-> Cardinality(hasSections) >= 3, add |-> 15,
               check |-> "Has standard sections"]>>
        sum[i \in 0..Len(points)] ==
            IF i = 0 THEN 0
            ELSE sum[i - 1] + (IF points[i].on THEN points[i].add ELSE 0)
        earned == SelectSeq(points, LAMBDA p : p.on)
    IN  IF \E j \in DOMAIN secs : secs[j].title = Undefined
        THEN [kind |-> "throw"]
        ELSE [kind |-> "return",
              score |-> Min(sum[Len(points)], 100),
              checks |-> [i \in DOMAIN earned |-> earned[i].check]]

\* ------------------------------------------------------------------ fill engine

\* The replacement text of String.prototype.replace(regex, rep): in rep, $$ is
\* a dollar sign, $& the matched text, $ with a grave accent the text before
\* the match and $' the text after it; a dollar sign before anything else (the
\* patterns here have no groups) stands for itself.
RECURSIVE IsPatternStart(_, _)
\* A pattern starts at the dollar sign at i, unless that sign is the second
\* character of a pattern that starts just before it.
IsPatternStart(rep, i) ==
    /\ rep[i] = "$"
    /\ i < Len(rep)
    /\ rep[i + 1] \in {"$", "&", BACKTICK, "'"}
    /\ ~(i > 1 /\ IsPatternStart(rep, i - 1))

ExpandReplacement(rep, matched, before, after) ==
    IF \A i \in DOMAIN rep : rep[i] # "$" THEN rep
    ELSE Flatten([i \in DOMAIN rep |->
        IF IsPatternStart(rep, i)
        THEN CASE rep[i + 1] = "$" -> <<"$">>
               [] rep[i + 1] = "&" -> matched
               [] rep[i + 1] = BACKTICK -> before
               [] rep[i + 1] = "'" -> after
        ELSE IF i > 1 /\ IsPatternStart(rep, i - 1) THEN <<>>
        ELSE <<rep[i]>>])

\* token matches str at i whatever the letter case (the i flag).
TokenAt(str, token, i) ==
    /\ i + Len(token) - 1 <= Len(str)
    /\ \A k \in DOMAIN token : toLowerCase(<<str[i + k - 1]>>) = <<token[k]>>

RECURSIVE ReplaceFrom(_, _, _, _, _)
\* The rest of str.replace(/token/gi, rep) from position i on, starts being
\* the places where the token stands: the matches are taken left to right,
\* each after the end of the one before.
ReplaceFrom(str, starts, i, token, rep) ==
    LET later == {m \in starts : m >= i}
        next == CHOOSE m \in later : \A n \in later : m <= n
    IN  IF later = {} THEN SubSeq(str, i, Len(str))
        ELSE SubSeq(str, i, next - 1)
             \o ExpandReplacement(rep, SubSeq(str, next, next + Len(token) - 1),
                                  SubSeq(str, 1, next - 1),
                                  SubSeq(str, next + Len(token), Len(str)))
             \o ReplaceFrom(str, starts, next + Len(token), token, rep)

\* str.replace(/\{token\}/gi, rep)
ReplaceToken(str, token, rep) ==
    LET starts == {i \in {k \in DOMAIN str : str[k] = token[1]} :
                      TokenAt(str, token, i)}
    IN  ReplaceFrom(str, starts, 1, token, rep)

\* The placeholders of the personal info, in the order they are replaced.
PersonalFields == <<"name", "email", "phone", "location", "linkedin", "website">>

\* The placeholder of a field: {field}.
Placeholder ==
    [name |-> <<"{","n","a","m","e","}">>, email |-> <<"{","e","m","a","i","l","}">>, phone |-> <<"{","p","h","o","n","e","}">>,
     location |-> <<"{","l","o","c","a","t","i","o","n","}">>, linkedin |-> <<"{","l","i","n","k","e","d","i","n","}">>,
     website |-> <<"{","w","e","b","s","i","t","e","}">>, summary |-> <<"{","s","u","m","m","a","r","y","}">>]

RECURSIVE NatToText(_)
\* `${n}` of a natural number.
NatToText(n) ==
    LET digit == <<"0","1","2","3","4","5","6","7","8","9">>[(n % 10) + 1]
    IN  IF n < 10 THEN <<digit>> ELSE NatToText(n \div 10) \o <<digit>>

\* generateSummary(userData, jobDescription): the title of the first
\* experience, or Professional, and the number of experiences.
generateSummary(ud, jd) ==
    LET title == IF Len(ud.experience) > 0 /\ "title" \in DOMAIN ud.experience[1]
                 THEN OrElse(ud.experience[1].title, <<"P","r","o","f","e","s","s","i","o","n","a","l">>)
                 ELSE <<"P","r","o","f","e","s","s","i","o","n","a","l">>
    IN  title \o <<" ","w","i","t","h"," ">> \o NatToText(Len(ud.experience))
        \o <<"+"," ","y","e","a","r","s"," ","o","f"," ","e","x","p","e","r","i","e","n","c","e"," ","i","n"," ","d","e","l","i","v","e","r","i","n","g"," ","h","i","g","h","-","q","u","a","l","i","t","y"," ","r","e","s","u","l","t","s","."," ","P","r","o","v","e","n"," ","t","r","a","c","k"," ","r","e","c","o","r","d"," ","o","f"," ","s","u","c","c","e","s","s"," ","i","n"," ","f","a","s","t","-","p","a","c","e","d"," ","e","n","v","i","r","o","n","m","e","n","t","s","."," ","S","t","r","o","n","g"," ","t","e","c","h","n","i","c","a","l"," ","s","k","i","l","l","s"," ","a","n","d"," ","c","o","m","m","i","t","m","e","n","t"," ","t","o"," ","e","x","c","e","l","l","e","n","c","e",".">>

\* str.trim()
RECURSIVE DropTrailingSpaces(_)
DropTrailingSpaces(str) ==
    IF str # <<>> /\ IsSpace(str[Len(str)])
    THEN DropTrailingSpaces(SubSeq(str, 1, Len(str) - 1)) ELSE str

Trim(str) == DropTrailingSpaces(DropSpaces(str))

\* str.replace(/\s+/g, ' ')
CollapseSpaces(str) ==
    LET marked == [i \in DOMAIN str |->
                      [ch |-> IF IsSpace(str[i]) THEN " " ELSE str[i],
                       rest |-> IsSpace(str[i]) /\ i > 1 /\ IsSpace(str[i - 1])]]
        kept == SelectSeq(marked, LAMBDA m : ~m.rest)
    IN  [i \in DOMAIN kept |-> kept[i].ch]

\* optimizeContent(content, jobDescription): trim, collapse the whitespace,
\* then replace(/^-\s*/gm, bullet and space); no line break is left by then,
\* so the only line start is the start of the text.
optimizeContent(content, jd) ==
    IF ~Truthy(content) THEN <<>>
    ELSE LET flat == CollapseSpaces(Trim(content))
         IN  IF StartsWith(flat, "-")
             THEN <<BULLET, " ">> \o DropSpaces(Tail(flat))
             ELSE flat

\* The six replacements of the personal info, one after the other, done on
\* the first n fields.
RECURSIVE FillPersonal(_, _, _)
FillPersonal(content, ud, n) ==
    IF n = 0 THEN content
    ELSE ReplaceToken(FillPersonal(content, ud, n - 1),
                      Placeholder[PersonalFields[n]],
                      OrElse(PersonalInfo(ud, PersonalFields[n]), <<>>))

\* The content of a filled element: untouched when falsy; else the personal
\* info, the summary where the content includes {summary} as written, and
\* optimizeContent when there is a job description.
FillContent(content, ud, jd) ==
    IF ~Truthy(content) THEN content
    ELSE LET personal == FillPersonal(content, ud, Len(PersonalFields))
             summarised ==
                IF Includes(personal, Placeholder.summary)
                THEN ReplaceToken(personal, Placeholder.summary,
                                  OrElse(ud.summary, generateSummary(ud, jd)))
                ELSE personal
         IN  IF Truthy(jd) THEN optimizeContent(summarised, jd) ELSE summarised

\* A filled element that keeps only the id next to the content.
FillElementBare(element, ud, jd) ==
    [id |-> element.id, content |-> FillContent(element.content, ud, jd)]

\* elements.map(element => ({ ...element, content }))
FillElement(element, ud, jd) ==
    [element EXCEPT !.content = FillContent(element.content, ud, jd)]

\* section.title?.toLowerCase().includes(word)
TitleIncludes(section, word) ==
    section.title # Undefined /\ Includes(toLowerCase(section.title), word)

\* The last of the three annotations that applies decides itemCount: the
\* later assignments overwrite the earlier ones.
FillCount(section, ud) ==
    IF TitleIncludes(section, <<"s","k","i","l","l">>) /\ Len(ud.skills) > 0 THEN Len(ud.skills)
    ELSE IF TitleIncludes(section, <<"e","d","u","c","a","t","i","o","n">>) /\ Len(ud.education) > 0
    THEN Len(ud.education)
    ELSE IF TitleIncludes(section, <<"e","x","p","e","r","i","e","n","c","e">>) /\ Len(ud.experience) > 0
    THEN Len(ud.experience)
    ELSE 0

\* sections.map(section => sectionCopy): the copy, with filled and itemCount
\* set when the title names experience, education or skill and the user data
\* has entries for it.
FillSection(section, ud) ==
    IF FillCount(section, ud) > 0
    THEN [filled |-> TRUE, itemCount |-> FillCount(section, ud)] @@ section
    ELSE section

\* ------------------------------------------------------------------ scorer state

scoreVars == <<userData, jobDescription, analysis, serverScore>>

\* A userData object with nothing in it.
NoUserData ==
    [personalInfo |-> <<>>, experience |-> <<>>, education |-> <<>>,
     skills |-> <<>>, summary |-> Undefined]

\* No scorer has run.
NoScoring ==
    /\ userData = NoUserData
    /\ jobDescription = <<>>
    /\ analysis = [totalScore |-> 0, suggestions |-> <<>>]
    /\ serverScore = [kind |-> "none"]

\* ------------------------------------------------------------------ server state

serverVars == <<templates, resumes, issued, nextRef, request, response>>

\* const storage = { templates: new Map(), resumes: new Map() }, before any
\* request.
NoServer ==
    /\ templates = <<>>
    /\ resumes = <<>>
    /\ issued = <<>>
    /\ nextRef = 1
    /\ request = [op |-> "none"]
    /\ response = [status |-> 0]

\* An id generator that returns the same id for a prefix every time.
generateIdFixed(prefix, n) == prefix \o "-1"

\* generateId(prefix): prefix, a dash and sixteen hex digits of random bytes.
\* The model draws the n-th id as n, so no two ids are equal; two draws of
\* crypto.randomBytes(8) that agree are left out.
generateId(prefix, n) == prefix \o "-" \o ToString(n)

\* An object on the heap: its identity, its own properties, and the
\* identities of the objects its properties hold (a section's filledContent
\* array).  Two objects that hold the same inner identity share that state.
Cell(ref, val, inner) == [ref |-> ref, val |-> val, inner |-> inner]

HasNested(val) == "filledContent" \in DOMAIN val /\ val.filledContent # <<>>

\* JSON.parse of the text of an array of objects: every object and every
\* nested array is made anew, from identity next on.
ParseList(items, next) ==
    [i \in DOMAIN items |->
        Cell(next + 2 * (i - 1), items[i],
             IF HasNested(items[i]) THEN {next + 2 * i - 1} ELSE {})]

\* JSON.parse of the text of { elements, sections }.
ParseDocument(els, secs, next) ==
    [elements |-> ParseList(els, next),
     sections |-> ParseList(secs, next + 2 * Len(els))]

\* The identities ParseDocument uses up.
ParseSize(els, secs) == 2 * (Len(els) + Len(secs))

\* JSON.stringify of an array of objects: the properties, without identity.
Plain(cells) == [i \in DOMAIN cells |-> cells[i].val]

PlainDocument(doc) ==
    [elements |-> Plain(doc.elements), sections |-> Plain(doc.sections)]

\* A clone that is the template itself.
JSONCloneAlias(doc, next) == doc

\* JSON.parse(JSON.stringify(templateData.template))
JSONClone(doc, next) ==
    ParseDocument(Plain(doc.elements), Plain(doc.sections), next)

\* { ...object, changes }: a new object with the same inner objects.
ShallowCopy(cell, ref, val) == Cell(ref, val, cell.inner)

\* Every identity a list of objects holds.
Refs(cells) == UNION {{cells[i].ref} \cup cells[i].inner : i \in DOMAIN cells}

DocumentRefs(doc) == Refs(doc.elements) \cup Refs(doc.sections)

\* A map that holds the new entry alone.
MapSetOnly(map, key, value) == (key :> value)

\* map.set(key, value)
MapSet(map, key, value) == (key :> value) @@ map

\* A delete that empties the map.
MapDeleteAll(map, key) == <<>>

\* What map.delete(key) leaves.
MapDelete(map, key) == [k \in DOMAIN map \ {key} |-> map[k]]

\* ------------------------------------------------------------------ editor state

editorVars == <<selectedIds, editingItem, dragState, moves>>

\* No item is edited; no drag is going on.
NoItem == [kind |-> "none"]

\* The editor as it is mounted: useSelection([]), no drawer, no drag.
NoEditor ==
    /\ selectedIds = <<>>
    /\ editingItem = NoItem
    /\ dragState = NoItem
    /\ moves = 0

\* ------------------------------------------------------------------ print state

printVars == <<printJob, firstRender>>

\* No print request is in progress, and nothing has been rendered.
NoPrint ==
    /\ printJob = NoItem
    /\ firstRender = NoItem

\* ------------------------------------------------------------------ documents

\* An element as createDefaultElement makes it, at a position.
ElementAt(id, x, y) ==
    [id |-> id, type |-> <<"t","e","x","t">>, content |-> <<"a">>,
     x |-> x, y |-> y, parentSection |-> NULL, atsField |-> NULL,
     semanticTag |-> <<"p">>,
     fontSize |-> 0, fontWeight |-> Undefined, fontFamily |-> Undefined,
     color |-> Undefined, textAlign |-> Undefined, lineHeight |-> Undefined]

ElementIds == <<"e1", "e2", "e3", "e4", "e5">>

\* Positions of the sort specification.
SortXs == {0, 10, 50}
SortYs == {100, 105, 200}

SortInputs ==
    UNION {[1..n -> SortXs \X SortYs] : n \in 1..MaxItems}

SortDocument(ps) ==
    [i \in DOMAIN ps |-> ElementAt(ElementIds[i], ps[i][1], ps[i][2])]

\* ------------------------------------------------------------------ sort specification

InitSort ==
    /\ elements \in {SortDocument(ps) : ps \in SortInputs}
    /\ sections = <<>>
    /\ op = "init"
    /\ sorted = <<>>
    /\ html = <<>>
    /\ NoTraversal
    /\ NoScoring
    /\ NoServer
    /\ NoEditor
    /\ NoPrint

\* helpers.js sortByReadingOrder(elements)
SortByReadingOrder ==
    /\ op = "init"
    /\ sorted' = sortByReadingOrder(elements)
    /\ op' = "sortByReadingOrder"
    /\ UNCHANGED <<elements, sections, html, treeVars, scoreVars, serverVars, editorVars, printVars>>

\* useElements.getATSContent(): the sorted elements, each mapped to
\* {field, content, tag}; x and y are kept here to tell the items apart.
GetATSContent ==
    /\ op = "init"
    /\ sorted' = [i \in 1..Len(elements) |->
                    LET el == sortByReadingOrder(elements)[i]
                    IN  [field |-> IF el.atsField = NULL THEN "text" ELSE el.atsField,
                         content |-> el.content,
                         tag |-> el.semanticTag,
                         x |-> el.x, y |-> el.y]]
    /\ op' = "getATSContent"
    /\ UNCHANGED <<elements, sections, html, treeVars, scoreVars, serverVars, editorVars, printVars>>

varsSort == <<elements, sections, op, sorted, html, treeVars, scoreVars, serverVars, editorVars, printVars>>

NextSort == SortByReadingOrder \/ GetATSContent

SpecSort == InitSort /\ [][NextSort]_varsSort

\* ------------------------------------------------------------------ C2

Positions(items) == [i \in DOMAIN items |-> <<items[i].y, items[i].x>>]

IsSortResult == op \in {"sortByReadingOrder", "getATSContent"}

\* The three elements of the example, in any input order.
C2_Case ==
    /\ Len(elements) = 3
    /\ Range(Positions(elements)) = {<<100, 50>>, <<105, 10>>, <<200, 0>>}

\* C2 as stated: the elements at (y=100,x=50), (y=105,x=10), (y=200,x=0) are
\* emitted in the order (100,50), (105,10), (200,0).
C2_AsStated ==
    (IsSortResult /\ C2_Case)
        => Positions(sorted) = <<<<100, 50>>, <<105, 10>>, <<200, 0>>>>

\* C2 amended: (y=100) and (y=105) are on one line (5 < 20) and are ordered by
\* ascending x, so the order is (105,10), (100,50), (200,0).
C2_ReadingOrderExample ==
    (IsSortResult /\ C2_Case)
        => Positions(sorted) = <<<<105, 10>>, <<100, 50>>, <<200, 0>>>>

\* The example has been sorted, from the input order the claim lists.
C2_Witness ==
    /\ IsSortResult
    /\ Positions(elements) = <<<<100, 50>>, <<105, 10>>, <<200, 0>>>>
    /\ Len(sorted) = 3

\* ------------------------------------------------------------------ render specification

\* The sections a document of the render specification may hold, and an id
\* that names no section.
RenderSectionIds == <<"s1", "s2">>
GhostId == "ghost"

\* What the items of a document carry: 1 bare items, 2 the editor's defaults
\* with a name and a contact line, 3 markup in every text, 4 bullets, absent
\* texts and filled content.
RenderVariants == 1..4

\* How the items are laid out: 1 down the page in pairs that share a line,
\* 2 up the page on lines of their own.
RenderLayouts == 1..2

ItemX(i) == IF i % 2 = 1 THEN 50 ELSE 10
ItemY(i, layout, top) == IF layout = 1 THEN top + 10 * (i - 1) ELSE top + 400 - 60 * i

Markup == <<"<","s","c","r","i","p","t",">","&","\"","'">>

RenderElement(i, parent, variant, layout) ==
    LET base == [ElementAt(ElementIds[i], ItemX(i), ItemY(i, layout, 40))
                    EXCEPT !.parentSection = parent]
    IN  CASE variant = 1 ->
                [base EXCEPT !.type = Undefined, !.semanticTag = Undefined]
          [] variant = 2 ->
                [base EXCEPT !.content = <<"N","e","w">>,
                             !.fontSize = IF i = 1 THEN 28 ELSE 11,
                             !.fontWeight = <<"n","o","r","m","a","l">>,
                             !.fontFamily = <<"A","r","i","a","l">>,
                             !.color = <<"#","3","3","3">>,
                             !.textAlign = <<"l","e","f","t">>,
                             !.lineHeight = <<"1",".","4">>,
                             !.atsField = IF i = 1 THEN "name"
                                          ELSE IF i = 2 THEN "contact" ELSE NULL]
          [] variant = 3 ->
                [base EXCEPT !.content = Markup,
                             !.type = <<"\"",">","<","b",">">>,
                             !.fontFamily = <<"A","\"",">">>,
                             !.color = <<"r","e","d">>,
                             !.semanticTag = Undefined]
          [] variant = 4 ->
                IF i % 2 = 1
                THEN [base EXCEPT !.content = <<"-"," ","a">>, !.type = TypeListItem]
                ELSE [base EXCEPT !.content = Undefined]

FilledSample ==
    <<[type |-> "entry", title |-> <<"J","o","b">>, subtitle |-> <<"2","0","2","4">>,
       bullets |-> <<<<"L","e","d","<">>>>, items |-> <<>>, content |-> Undefined],
      [type |-> "list", title |-> Undefined, subtitle |-> Undefined,
       bullets |-> <<>>, items |-> <<<<"J","S">>, <<"C","&">>>>, content |-> Undefined],
      [type |-> "text", title |-> Undefined, subtitle |-> Undefined,
       bullets |-> <<>>, items |-> <<>>, content |-> <<"H","i">>]>>

\* A section as createDefaultSection makes it.
SectionAt(id, x, y) ==
    [id |-> id, title |-> <<"N","e","w">>, x |-> x, y |-> y,
     parentSection |-> NULL, contentType |-> "text", direction |-> "vertical",
     readingOrder |-> 0, filledContent |-> <<>>]

RenderSection(j, parent, variant, layout) ==
    LET base == [SectionAt(RenderSectionIds[j], ItemX(j), ItemY(j, layout, 200))
                    EXCEPT !.parentSection = parent, !.readingOrder = j]
    IN  CASE variant = 1 -> base
          [] variant = 2 ->
                [base EXCEPT !.title = <<"S","k","i","l","l","s">>,
                             !.contentType = "list-items"]
          [] variant = 3 -> [base EXCEPT !.title = <<"<","b",">","&">>]
          [] variant = 4 ->
                IF j % 2 = 1
                THEN [base EXCEPT !.title = Undefined, !.contentType = "list-items"]
                ELSE [base EXCEPT !.filledContent = FilledSample]

\* Every parentSection an item of the render specification may carry: none,
\* a section of the document, itself (a section), or no section at all.
RenderParents == {NULL, GhostId} \cup Range(RenderSectionIds)

RenderElementParents == UNION {[1..n -> RenderParents] : n \in 0..MaxRenderElements}
RenderSectionParents == UNION {[1..n -> RenderParents] : n \in 0..Len(RenderSectionIds)}

InitRender ==
    /\ \E variant \in RenderVariants, layout \in RenderLayouts :
        /\ \E ps \in RenderElementParents :
            elements = [i \in DOMAIN ps |-> RenderElement(i, ps[i], variant, layout)]
        /\ \E ps \in RenderSectionParents :
            sections = [j \in DOMAIN ps |-> RenderSection(j, ps[j], variant, layout)]
    /\ op = "init"
    /\ sorted = <<>>
    /\ html = <<>>
    /\ NoTraversal
    /\ NoScoring
    /\ NoServer
    /\ NoEditor
    /\ NoPrint

\* The page sizes a request may name; anything but Letter prints as A4.
Formats == {"A4", "Letter"}

\* POST /api/resume/preview with elements and sections in the body (and the
\* HTML that POST /api/resume/print hands to the browser).
ServerPreview ==
    /\ op = "init"
    /\ \E format \in Formats : html' = generateResumeHTML(elements, sections, format)
    /\ op' = "serverPreview"
    /\ UNCHANGED <<elements, sections, sorted, treeVars, scoreVars, serverVars, editorVars, printVars>>

\* The same request to the print server of test-api.js.
PrintServerPreview ==
    /\ op = "init"
    /\ \E format \in Formats : html' = printServerHTML(elements, sections, format)
    /\ op' = "printServerPreview"
    /\ UNCHANGED <<elements, sections, sorted, treeVars, scoreVars, serverVars, editorVars, printVars>>

\* ExportModal.jsx handleBrowserPrint: sorts the elements and writes
\* generatePrintHTML's document to the print window.
BrowserPrint ==
    /\ op = "init"
    /\ \E format \in Formats :
        html' = generatePrintHTML(ArraySort("readingOrder", elements), sections,
                                  TemplateName, format)
    /\ op' = "browserPrint"
    /\ UNCHANGED <<elements, sections, sorted, treeVars, scoreVars, serverVars, editorVars, printVars>>

\* useTemplateStorage.js exportATSHTML()
ExportATSHTML ==
    /\ op = "init"
    /\ html' = exportATSHTML(elements, sections, TemplateName)
    /\ op' = "exportATSHTML"
    /\ UNCHANGED <<elements, sections, sorted, treeVars, scoreVars, serverVars, editorVars, printVars>>

varsRender == <<elements, sections, op, sorted, html, treeVars, scoreVars, serverVars, editorVars, printVars>>

NextRender == ServerPreview \/ PrintServerPreview \/ BrowserPrint \/ ExportATSHTML

SpecRender == InitRender /\ [][NextRender]_varsRender

\* ------------------------------------------------------------------ C1

\* The five characters escapeHTML replaces, and what it writes for them.
HtmlSpecials == {"&", "<", ">", "\"", "'"}
HtmlEntities ==
    {<<"&","a","m","p",";">>, <<"&","l","t",";">>, <<"&","g","t",";">>,
     <<"&","q","u","o","t",";">>, <<"&","#","0","3","9",";">>}

\* No special character stands in str, but as the & that opens an entity.
IsEscapedText(str) ==
    \A i \in DOMAIN str :
        str[i] \in HtmlSpecials =>
            /\ str[i] = "&"
            /\ \E e \in HtmlEntities :
                /\ i + Len(e) - 1 <= Len(str)
                /\ SubSeq(str, i, i + Len(e) - 1) = e

IsRendered == op \in {"serverPreview", "printServerPreview", "browserPrint"}

\* C1: in the HTML of the server's renderers and of the browser-print
\* generator, every value read from an element or a section is escaped: none of
\* & < > " ' reaches the document as the input had it.
C1_EveryValueEscaped ==
    IsRendered =>
        \A i \in DOMAIN html :
            (html[i].kind = "val" /\ html[i].of # NULL) => IsEscapedText(html[i].text)

\* ------------------------------------------------------------------ C5, C6

SectionIdsOf(secs) == {secs[j].id : j \in DOMAIN secs}

\* A parentSection that names no section of the document.
IsDangling(item, secs) ==
    item.parentSection # NULL /\ item.parentSection \notin SectionIdsOf(secs)

\* Where the pieces of an item's property stand in the document.
PiecesOf(doc, id, field) ==
    {i \in DOMAIN doc : doc[i].kind = "val" /\ doc[i].of = id /\ doc[i].field = field}

\* Where the sections of the server's document start.
SectionStarts(doc) ==
    {i \in DOMAIN doc : doc[i] = Lit("<div class=\"section\">")}

InHeader(doc, i) == \A k \in SectionStarts(doc) : i < k

\* C5: an element or a section whose parentSection names no section is
\* rendered as a top-level one: the element in the header, the section as a
\* root section, each in the document.
C5_DanglingIsTopLevel ==
    op = "serverPreview" =>
        /\ \A i \in DOMAIN elements :
            IsDangling(elements[i], sections) =>
                \E k \in PiecesOf(html, elements[i].id, "content") : InHeader(html, k)
        /\ \A j \in DOMAIN sections :
            IsDangling(sections[j], sections) =>
                PiecesOf(html, sections[j].id, "title") # {}

\* The sections the server renders: those without a parentSection.
RootSectionIds(secs) == {secs[j].id : j \in {k \in DOMAIN secs : NoParent(secs[k])}}

\* C6: the header holds exactly the elements without a parentSection, before
\* every section, and every element is rendered exactly once: one that belongs
\* to a section stands in that section and not in the header.  Stated for the
\* elements that are top-level or belong to a root section.
C6_HeaderIsTopLevelOnce ==
    op = "serverPreview" =>
        \A i \in DOMAIN elements :
            (NoParent(elements[i]) \/ elements[i].parentSection \in RootSectionIds(sections)) =>
                LET at == PiecesOf(html, elements[i].id, "content")
                IN  /\ Cardinality(at) = 1
                    /\ (\E k \in at : InHeader(html, k)) <=> NoParent(elements[i])

\* ------------------------------------------------------------------ hierarchy specification

\* Every parentSection a section may carry: none, any section of the document
\* (itself too), or no section at all.
TreeSectionIds == <<"s1", "s2", "s3", "s4", "s5">>

TreeParents(n) == {NULL, GhostId} \cup {TreeSectionIds[j] : j \in 1..n}

TreeSection(j, parent, layout) ==
    [SectionAt(TreeSectionIds[j], ItemX(j), ItemY(j, layout, 200))
        EXCEPT !.parentSection = parent,
               !.readingOrder = IF layout = 1 THEN j ELSE 0]

InitTree ==
    /\ \E n \in 1..MaxTreeSections, layout \in RenderLayouts :
        \E ps \in [1..n -> TreeParents(n)] :
            sections = [j \in 1..n |-> TreeSection(j, ps[j], layout)]
    /\ elements = <<>>
    /\ op = "init"
    /\ sorted = <<>>
    /\ html = <<>>
    /\ NoTraversal
    /\ NoScoring
    /\ NoServer
    /\ NoEditor
    /\ NoPrint

\* helpers.js buildSectionTree(sections)
BuildSectionTree ==
    /\ op = "init"
    /\ tree' = buildSectionTree(sections)
    /\ op' = "buildSectionTree"
    /\ UNCHANGED <<elements, sections, sorted, html, hstack, hcalls, hresult, scoreVars, serverVars, editorVars, printVars>>

\* Calls of buildHierarchy past which the model follows a traversal no further.
MaxCalls == 8

\* getSectionHierarchy(): the call buildHierarchy(null).
HierarchyStart ==
    /\ op = "init"
    /\ hstack' = <<Frame(NULL, HierarchyRoots(sections))>>
    /\ hcalls' = <<NULL>>
    /\ op' = "hierarchy"
    /\ UNCHANGED <<elements, sections, sorted, html, tree, hresult, scoreVars, serverVars, editorVars, printVars>>

\* .map(section => ({...section, children: buildHierarchy(section.id)})): the
\* innermost call reaches its next section and calls buildHierarchy on its id.
HierarchyCall ==
    /\ op = "hierarchy"
    /\ Len(hcalls) < MaxCalls
    /\ LET top == hstack[Len(hstack)]
       IN  /\ top.todo # <<>>
           /\ hstack' = Append(hstack,
                    Frame(Head(top.todo).id,
                          ArraySort("readingOrderField",
                                    ChildrenOf(sections, Head(top.todo).id))))
    /\ hcalls' = Append(hcalls, Head(hstack[Len(hstack)].todo).id)
    /\ UNCHANGED <<elements, sections, op, sorted, html, tree, hresult, scoreVars, serverVars, editorVars, printVars>>

\* The innermost call has mapped all its sections and returns its nodes: to
\* the call that made it, or to the caller of getSectionHierarchy.
HierarchyReturn ==
    /\ op = "hierarchy"
    /\ LET n == Len(hstack)
           top == hstack[n]
       IN  /\ top.todo = <<>>
           /\ IF n = 1
              THEN /\ hresult' = top.done
                   /\ hstack' = <<>>
                   /\ op' = "getSectionHierarchy"
              ELSE /\ hstack' = [SubSeq(hstack, 1, n - 1) EXCEPT
                        ![n - 1].todo = Tail(@),
                        ![n - 1].done = Append(@, [id |-> top.parentId, children |-> top.done])]
                   /\ UNCHANGED <<hresult, op>>
    /\ UNCHANGED <<elements, sections, sorted, html, tree, hcalls, scoreVars, serverVars, editorVars, printVars>>

varsTree == <<elements, sections, op, sorted, html, treeVars, scoreVars, serverVars, editorVars, printVars>>

NextTree ==
    BuildSectionTree \/ HierarchyStart \/ HierarchyCall \/ HierarchyReturn \/ ServerPreview

SpecTree == InitTree /\ [][NextTree]_varsTree

\* ------------------------------------------------------------------ C3, C4

\* The section that id names, if any.
SectionsNamed(secs, id) == {j \in DOMAIN secs : secs[j].id = id}

\* Sections a and b are each other's parent.
IsTwoCycle(secs, a, b) ==
    /\ a # b
    /\ secs[a].parentSection = secs[b].id
    /\ secs[b].parentSection = secs[a].id

RECURSIVE TreeReach(_, _, _)
\* The ids reachable from ids through children, in at most n steps.
TreeReach(t, ids, n) ==
    IF n = 0 THEN ids
    ELSE TreeReach(t, ids \cup UNION {Range(t.children[id]) : id \in ids}, n - 1)

\* The sections in the tree buildSectionTree returned.
TreeIds(t, secs) == TreeReach(t, Range(t.roots), Len(secs))

RECURSIVE HierarchyIds(_)
\* The sections in a hierarchy getSectionHierarchy returned.
HierarchyIds(nodes) ==
    IF nodes = <<>> THEN {}
    ELSE {Head(nodes).id} \cup HierarchyIds(Head(nodes).children)
            \cup HierarchyIds(Tail(nodes))

\* The sections a finished operation returned or rendered.
ResultIds ==
    CASE op = "buildSectionTree" -> TreeIds(tree, sections)
      [] op = "getSectionHierarchy" -> HierarchyIds(hresult)
      [] op = "serverPreview" ->
            {sections[j].id : j \in {k \in DOMAIN sections :
                                        PiecesOf(html, sections[k].id, "title") # {}}}
      [] OTHER -> {}

\* C3: two sections that are each other's parent are reported as a model
\* error, never silently left out.  buildSectionTree, getSectionHierarchy and
\* generateResumeHTML return an array or a string and have no error result, so
\* the two sections must be in what they return.
C3_CycleNotDropped ==
    op \in {"buildSectionTree", "getSectionHierarchy", "serverPreview"} =>
        \A a, b \in DOMAIN sections :
            IsTwoCycle(sections, a, b) =>
                {sections[a].id, sections[b].id} \subseteq ResultIds

RECURSIVE ParentChain(_, _, _)
\* The id reached from id by following parentSection n times (NULL once the
\* chain leaves the document).
ParentChain(secs, id, n) ==
    IF n = 0 \/ SectionsNamed(secs, id) = {} THEN id
    ELSE ParentChain(secs,
            secs[CHOOSE j \in SectionsNamed(secs, id) : TRUE].parentSection, n - 1)

\* Some section is its own ancestor.
HasParentCycle(secs) ==
    \E j \in DOMAIN secs : \E n \in 1..Len(secs) :
        ParentChain(secs, secs[j].parentSection, n - 1) = secs[j].id

\* C4: for every collection of sections (ids distinct, parentSection anything:
\* cycles, self-parenting, dangling), getSectionHierarchy terminates: no section
\* is handed to buildHierarchy twice, the recursion is never deeper than the
\* number of sections plus one, and until it has returned a step is enabled.
C4_HierarchyTerminates ==
    /\ \A i, k \in DOMAIN hcalls : i # k => hcalls[i] # hcalls[k]
    /\ Len(hcalls) <= Len(sections) + 1
    /\ Len(hstack) <= Len(sections) + 1
    /\ op = "hierarchy" => ENABLED (HierarchyCall \/ HierarchyReturn)

\* A traversal has returned for a document that holds a parent cycle beside
\* a root section.
C4_Witness ==
    /\ op = "getSectionHierarchy"
    /\ HasParentCycle(sections)
    /\ hresult # <<>>
    /\ Len(hcalls) > 1

\* ------------------------------------------------------------------ scorer specification

\* Most elements in a document of the scorer specification.
MaxScoreElements == 2

\* Most sections in a document of the scorer specification.
MaxScoreSections == 3

\* A contact line with an email address, a phone number and a LinkedIn URL.
ContactLine == <<"J","a","n","e"," ","D","o","e"," ","j","a","n","e","@","x",".","c","o","m"," ","|"," ","(","5","5","5",")"," ","1","2","3","-","4","5","6","7"," ","|"," ","l","i","n","k","e","d","i","n",".","c","o","m","/","i","n","/","j","a","n","e">>

\* A paragraph of thirty keywords.
KeywordParagraph == <<"L","e","d"," ","a","n","d"," ","m","a","n","a","g","e","d"," ","t","h","e"," ","t","e","a","m",","," ","d","i","r","e","c","t","e","d"," ","a","n","d"," ","s","u","p","e","r","v","i","s","e","d"," ","s","t","a","f","f",","," ","c","o","o","r","d","i","n","a","t","e","d",","," ","m","e","n","t","o","r","e","d",","," ","t","r","a","i","n","e","d",","," ","d","e","l","e","g","a","t","e","d",","," ","a","c","h","i","e","v","e","d",","," ","d","e","l","i","v","e","r","e","d",","," ","e","x","c","e","e","d","e","d",","," ","i","m","p","r","o","v","e","d",","," ","i","n","c","r","e","a","s","e","d",","," ","r","e","d","u","c","e","d",","," ","o","p","t","i","m","i","z","e","d",","," ","s","a","v","e","d",","," ","d","e","v","e","l","o","p","e","d",","," ","i","m","p","l","e","m","e","n","t","e","d",","," ","d","e","s","i","g","n","e","d",","," ","b","u","i","l","t",","," ","d","e","p","l","o","y","e","d",","," ","p","r","e","s","e","n","t","e","d",","," ","a","n","a","l","y","z","e","d",","," ","e","v","a","l","u","a","t","e","d",","," ","s","o","l","v","e","d",","," ","o","r","g","a","n","i","z","e","d",","," ","p","l","a","n","n","e","d",","," ","s","c","h","e","d","u","l","e","d",","," ","e","x","e","c","u","t","e","d",","," ","l","a","u","n","c","h","e","d",".">>

\* A text of more than a hundred words that holds more than twenty keywords.
LongText == KeywordParagraph \o Repeat(<<" ","a">>, 70)

\* An email address among more than ten special characters.
SpecialText == <<"j","a","n","e","@","x",".","c","o","m"," ","~"," ","C","+","+"," ","<","b",">"," ","^","^"," ","{","a","}"," ","[","b","]"," ","|","|"," ",";",";">>

\* What an element of the scorer specification carries: 1 the contact line in
\* Arial, 2 the long text in no font of its own, 3 an image in a font that is
\* not ATS-friendly, 4 the special characters in Papyrus.
ScoreElementVariants == 1..4

ScoreElement(i, variant) ==
    LET base == ElementAt(ElementIds[i], ItemX(i), ItemY(i, 1, 40))
    IN  CASE variant = 1 ->
                [base EXCEPT !.content = ContactLine, !.fontFamily = <<"A","r","i","a","l">>]
          [] variant = 2 -> [base EXCEPT !.content = LongText]
          [] variant = 3 ->
                [base EXCEPT !.type = TypeImage, !.content = Undefined,
                             !.fontFamily = <<"C","o","m","i","c"," ","S","a","n","s"," ","M","S">>]
          [] variant = 4 ->
                [base EXCEPT !.content = SpecialText, !.fontFamily = <<"P","a","p","y","r","u","s">>]

\* Titles that name the three required sections, one by an alias, one in
\* capitals, one inside a longer title.
RequiredTitles == <<<<"W","o","r","k"," ","H","i","s","t","o","r","y">>,
                    <<"E","D","U","C","A","T","I","O","N">>,
                    <<"M","y"," ","S","k","i","l","l","s"," ","&"," ","T","o","o","l","s">>>>

\* What a section of the scorer specification carries: 1 the title of a
\* required section, 2 no title and a horizontal list of sections.
ScoreSectionVariants == 1..2

ScoreSection(j, variant) ==
    LET base == [SectionAt(TreeSectionIds[j], ItemX(j), ItemY(j, 1, 200))
                    EXCEPT !.readingOrder = j]
    IN  IF variant = 1
        THEN [base EXCEPT !.title = RequiredTitles[((j - 1) % 3) + 1]]
        ELSE [base EXCEPT !.title = Undefined, !.direction = "horizontal",
                          !.contentType = "list-sections"]

\* The user data of a request: nothing; a name, an experience without a
\* description, one skill and a short summary; everything, with five skills
\* and a summary of more than fifty characters.
UserDataSamples ==
    { NoUserData,
      [personalInfo |-> <<[name |-> <<"J","a","n","e">>, email |-> Undefined,
                           phone |-> <<>>, location |-> Undefined]>>,
       experience |-> <<[description |-> Undefined]>>,
       education |-> <<>>,
       skills |-> <<<<"J","S">>>>,
       summary |-> <<"E","n","g","i","n","e","e","r">>],
      [personalInfo |-> <<[name |-> <<"J","a","n","e">>, email |-> <<"j","a","n","e","@","x",".","c","o","m">>,
                           phone |-> <<"5","5","5","1","2","3","4","5","6","7">>, location |-> <<"L","a","h","o","r","e">>]>>,
       experience |-> <<[description |-> Undefined], [description |-> <<"L","e","d"," ","a"," ","t","e","a","m">>]>>,
       education |-> <<[degree |-> <<"B","S","c">>]>>,
       skills |-> [i \in 1..5 |-> <<"J","S">>],
       summary |-> Repeat(<<"a">>, 51)] }

\* No job description, and one that names a word twice.
JobDescriptions == {<<>>, <<"K","u","b","e","r","n","e","t","e","s"," ","e","x","p","e","r","t","s"," ","w","h","o"," ","m","a","n","a","g","e","d"," ","t","e","a","m","s","."," ","K","u","b","e","r","n","e","t","e","s"," ","r","e","q","u","i","r","e","d","!">>}

ScoreElementLists ==
    UNION {[1..n -> ScoreElementVariants] : n \in 0..MaxScoreElements}

ScoreSectionLists ==
    UNION {[1..n -> ScoreSectionVariants] : n \in 0..MaxScoreSections}

\* The editor holds a document and no user data; a request to the server
\* carries user data and the sections of a template.
InitScore ==
    /\ \E ss \in ScoreSectionLists :
        sections = [j \in DOMAIN ss |-> ScoreSection(j, ss[j])]
    /\ \/ /\ \E es \in ScoreElementLists :
                elements = [i \in DOMAIN es |-> ScoreElement(i, es[i])]
          /\ userData = NoUserData
       \/ /\ elements = <<>>
          /\ userData \in UserDataSamples
    /\ jobDescription = <<>>
    /\ analysis = [totalScore |-> 0, suggestions |-> <<>>]
    /\ serverScore = [kind |-> "none"]
    /\ op = "init"
    /\ sorted = <<>>
    /\ html = <<>>
    /\ NoTraversal
    /\ NoServer
    /\ NoEditor
    /\ NoPrint

\* useATSScore analyzeResume(jobDescription)
AnalyzeResume ==
    /\ op = "init"
    /\ \E jd \in JobDescriptions :
        /\ jobDescription' = jd
        /\ analysis' = analyzeResume(elements, sections, jd)
    /\ op' = "analyzeResume"
    /\ UNCHANGED <<elements, sections, sorted, html, treeVars, userData, serverScore,
                   serverVars, editorVars, printVars>>

\* server.js calculateATSScore(userData, sections, elements)
CalculateATSScore ==
    /\ op = "init"
    /\ serverScore' = calculateATSScore(userData, sections)
    /\ op' = "calculateATSScore"
    /\ UNCHANGED <<elements, sections, sorted, html, treeVars, userData,
                   jobDescription, analysis, serverVars, editorVars, printVars>>

varsScore == <<elements, sections, op, sorted, html, treeVars, scoreVars, serverVars, editorVars, printVars>>

NextScore == AnalyzeResume \/ CalculateATSScore

SpecScore == InitScore /\ [][NextScore]_varsScore

\* ------------------------------------------------------------------ C7

\* C7: the total score is between 0 and 100: the one analyzeResume returns for
\* any elements, sections and job description, and the one calculateATSScore
\* returns for any user data and sections whenever it returns.
C7_ScoreBounds ==
    /\ op = "analyzeResume" => analysis.totalScore \in 0..100
    /\ (op = "calculateATSScore" /\ serverScore.kind = "return") =>
            serverScore.score \in 0..100

\* An analysis found more than twenty keywords, so that the cap of the keyword
\* score is what keeps the total, here above 90, under 100.
C7_Witness ==
    /\ op = "analyzeResume"
    /\ Len(analysis.breakdown.keywords.found) > 20
    /\ analysis.totalScore > 90

\* ------------------------------------------------------------------ C8

\* The suggestions of an analysis that have the given type.
SuggestionsOfType(type) ==
    SelectSeq(analysis.suggestions, LAMBDA sg : sg.type = type)

\* A high-priority suggestion names the three required sections as missing.
SuggestsAllRequiredSections ==
    \E i \in DOMAIN analysis.suggestions :
        /\ analysis.suggestions[i].type = "section"
        /\ analysis.suggestions[i].priority = "high"
        /\ Range(analysis.suggestions[i].data) = {"experience", "education", "skills"}

\* The analysis at hand is that of a resume without elements and sections.
C8_Witness == op = "analyzeResume" /\ elements = <<>> /\ sections = <<>>

\* C8 as stated: the empty resume scores 0 and is told of the three missing
\* sections with high priority.
C8_AsStated ==
    C8_Witness => analysis.totalScore = 0 /\ SuggestsAllRequiredSections

\* C8: for a resume with zero elements and zero sections analyzeResume returns
\* total score 28 (fonts 100 at weight 0.10 and formatting 90 at weight 0.20,
\* the other three sub-scores 0), and its suggestions hold a high-priority
\* entry that names experience, education and skills as missing.
C8_EmptyResume ==
    C8_Witness =>
        /\ analysis.totalScore = 28
        /\ analysis.breakdown.fonts.score = Frac(100, 1)
        /\ analysis.breakdown.formatting.score = Frac(90, 1)
        /\ SuggestsAllRequiredSections

\* ------------------------------------------------------------------ C9

\* How many of the email pattern, the phone pattern and the linkedin substring
\* the analysed text matched.
ContactMatched ==
    Len(SelectSeq(<<"email", "phone", "linkedin">>,
                  LAMBDA k : analysis.breakdown.contact.checks[k]))

\* C9: the contact sub-score is matched / 3 x 100 over email, phone and
\* linkedin: a text with all three scores 100 and gets no missing-contact
\* suggestion, and each absent item lowers the sub-score by a third.
C9_ContactOfThree ==
    op = "analyzeResume" =>
        /\ analysis.breakdown.contact.score.num * 3
                = ContactMatched * 100 * analysis.breakdown.contact.score.den
        /\ ContactMatched = 3 => SuggestionsOfType("contact") = <<>>

\* ------------------------------------------------------------------ C10

\* { high: 0, medium: 1, low: 2 }
PriorityRank(priority) ==
    CASE priority = "high" -> 0 [] priority = "medium" -> 1 [] priority = "low" -> 2

\* C10: in the suggestions an analysis returns every high suggestion precedes
\* every medium one and every medium one every low one.
C10_SuggestionsByPriority ==
    op = "analyzeResume" =>
        \A i, k \in DOMAIN analysis.suggestions :
            i < k => PriorityRank(analysis.suggestions[i].priority)
                        <= PriorityRank(analysis.suggestions[k].priority)

\* ------------------------------------------------------------------ C11

\* The total score and the five sub-scores of an analysis.
ScoresOf(a) ==
    <<a.totalScore, a.breakdown.sections.score, a.breakdown.contact.score,
      a.breakdown.fonts.score, a.breakdown.keywords.score,
      a.breakdown.formatting.score>>

\* C11: for fixed elements and sections the total score and the five
\* sub-scores analyzeResume returns are the same for every job description,
\* none included: an analysis given a job description returns the scores of
\* the analysis given none; the job description reaches only the missing
\* keywords and the suggestions.
C11_ScoresIgnoreJobDescription ==
    (op = "analyzeResume" /\ jobDescription # <<>>) =>
        ScoresOf(analysis) = ScoresOf(analyzeResume(elements, sections, <<>>))

\* An analysis was given a job description, and it changed what the analysis
\* returned: keywords of it are reported missing and a suggestion names them.
C11_Witness ==
    /\ op = "analyzeResume"
    /\ jobDescription # <<>>
    /\ analysis.breakdown.keywords.missing # <<>>
    /\ \E i \in DOMAIN analysis.suggestions : analysis.suggestions[i].type = "keyword"
    /\ analysis.breakdown.keywords.found # <<>>

\* ------------------------------------------------------------------ server specification

\* Most ids generateId returns in a run.
MaxIds == 3

\* An element and a section with the properties the API test gives them.
ServerElement(i, content) ==
    [id |-> ElementIds[i], type |-> <<"t","e","x","t">>, content |-> content,
     x |-> 50, y |-> 50 * i, fontSize |-> 12]

ServerSection(j, title) ==
    [id |-> TreeSectionIds[j], title |-> title, x |-> 50, y |-> 100 + 50 * j,
     contentType |-> "text"]

\* A section that holds an array of its own.
ServerSectionFilled(j, title) ==
    [filledContent |-> <<[type |-> "text", content |-> <<"H","i">>]>>]
        @@ ServerSection(j, title)

\* The template of the API test, with one more element (placeholders in
\* other letter cases, an unknown token, the summary) and one more section
\* (one that holds an array); and a template with an element without content
\* and an untitled section.
TemplateSamples ==
    <<[elements |-> <<ServerElement(1, <<"{","n","a","m","e","}">>), ServerElement(2, <<"{","e","m","a","i","l","}"," ","|"," ","{","p","h","o","n","e","}">>),
                      ServerElement(3, <<" ","-"," ","{","N","A","M","E","}"," "," ","{","u","n","k","n","o","w","n","}"," ","{","s","u","m","m","a","r","y","}","{","l","i","n","k","e","d","i","n","}"," ">>)>>,
       sections |-> <<ServerSection(1, <<"P","r","o","f","e","s","s","i","o","n","a","l"," ","S","u","m","m","a","r","y">>), ServerSection(2, <<"E","x","p","e","r","i","e","n","c","e">>),
                      ServerSectionFilled(3, <<"S","k","i","l","l","s">>)>>],
      [elements |-> <<ServerElement(1, Undefined)>>,
       sections |-> <<ServerSection(1, Undefined)>>]>>

SavedName == <<"T","e","s","t">>

\* The bodies of POST /api/templates/save: an absent value is the empty
\* sequence, a present one the one-value sequence.
SaveBodies ==
    {[name |-> SavedName,
      template |-> <<[elements |-> <<TemplateSamples[k].elements>>,
                      sections |-> <<TemplateSamples[k].sections>>]>>] :
        k \in DOMAIN TemplateSamples}
    \cup
    {[name |-> Undefined,
      template |-> <<[elements |-> <<TemplateSamples[1].elements>>,
                      sections |-> <<TemplateSamples[1].sections>>]>>],
     [name |-> SavedName, template |-> <<>>],
     [name |-> SavedName,
      template |-> <<[elements |-> <<>>, sections |-> <<TemplateSamples[1].sections>>]>>],
     [name |-> SavedName,
      template |-> <<[elements |-> <<TemplateSamples[1].elements>>, sections |-> <<>>]>>]}

\* User data whose name and email hold replacement patterns and whose phone
\* holds a placeholder.
PatternUserData ==
    [personalInfo |-> <<[name |-> <<"A","$","$","B","$","&">>, email |-> <<"$", BACKTICK>>, linkedin |-> <<"$","'">>,
                         phone |-> <<"{","w","e","b","s","i","t","e","}">>]>>,
     experience |-> <<[title |-> <<"D","e","v">>, description |-> Undefined]>>,
     education |-> <<>>,
     skills |-> <<<<"J","S">>, <<"G","o">>>>,
     summary |-> Undefined]

FullUserData ==
    [personalInfo |-> <<[name |-> <<"J","a","n","e">>, email |-> <<"j","a","n","e","@","x",".","c","o","m">>,
                         phone |-> <<"5","5","5","1","2","3","4","5","6","7">>, location |-> <<"L","a","h","o","r","e">>,
                         linkedin |-> <<"i","n","/","j","a","n","e">>]>>,
     experience |-> <<[description |-> <<"L","e","d"," ","a"," ","t","e","a","m">>]>>,
     education |-> <<[degree |-> <<"B","S","c">>]>>,
     skills |-> [i \in 1..5 |-> <<"J","S">>],
     summary |-> <<"E","n","g","i","n","e","e","r">>]

\* What a generate request carries besides the template id.
GenerateInputs ==
    {[userData |-> <<FullUserData>>, jobDescription |-> <<"G","o"," ","d","e","v","e","l","o","p","e","r">>],
     [userData |-> <<PatternUserData>>, jobDescription |-> <<>>]}

\* The ids generateId returned for a prefix.
IssuedWith(prefix) ==
    {issued[n] : n \in {m \in DOMAIN issued : issued[m] = generateId(prefix, m)}}

\* The ids a request can name: every id issued so far, deleted or not, and
\* one never issued.
TemplateRequestIds == IssuedWith("template") \cup {generateId("template", 0)}

ResumeRequestIds == IssuedWith("resume") \cup {generateId("resume", 0)}

\* The bodies of POST /api/resume/generate: with user data and a template id,
\* without a template id, without user data.
GenerateBodies ==
    {[templateId |-> id, userData |-> input.userData,
      jobDescription |-> input.jobDescription] :
        id \in TemplateRequestIds, input \in GenerateInputs}
    \cup
    {[templateId |-> "", userData |-> <<FullUserData>>, jobDescription |-> <<>>]}
    \cup
    {[templateId |-> id, userData |-> <<>>, jobDescription |-> <<>>] :
        id \in TemplateRequestIds}

InitServer ==
    /\ elements = <<>>
    /\ sections = <<>>
    /\ op = "init"
    /\ sorted = <<>>
    /\ html = <<>>
    /\ NoTraversal
    /\ NoScoring
    /\ NoServer
    /\ NoEditor
    /\ NoPrint

\* What a handler leaves alone: the editor's and the scorer's state.
OutsideServer == <<elements, sections, sorted, html, treeVars, scoreVars, editorVars, printVars>>

\* A request that ends without touching the stores.
Reject(status, error) ==
    /\ response' = [status |-> status, body |-> [error |-> error]]
    /\ UNCHANGED <<templates, resumes, issued, nextRef>>

\* POST /api/templates/save, for a body of bodies
SaveTemplateFrom(bodies) ==
    \E body \in bodies :
        /\ request' = [op |-> "save", body |-> body]
        /\ op' = "save"
        /\ IF body.template = <<>> \/ ~Truthy(body.name)
           THEN Reject(400, "Missing required fields")
           ELSE IF body.template[1].elements = <<>> \/ body.template[1].sections = <<>>
           THEN Reject(400, "Invalid template structure")
           ELSE /\ Len(issued) < MaxIds
                /\ LET templateId == generateId("template", Len(issued) + 1)
                       els == body.template[1].elements[1]
                       secs == body.template[1].sections[1]
                       templateData ==
                           [id |-> templateId, name |-> body.name,
                            template |-> ParseDocument(els, secs, nextRef)]
                   IN  /\ templates' = MapSet(templates, templateId, templateData)
                       /\ issued' = Append(issued, templateId)
                       /\ nextRef' = nextRef + ParseSize(els, secs)
                       /\ response' = [status |-> 200,
                                       body |-> [success |-> TRUE,
                                                 templateId |-> templateId]]
                /\ UNCHANGED resumes
        /\ UNCHANGED OutsideServer

SaveTemplate == SaveTemplateFrom(SaveBodies)

\* GET /api/templates: the templates in the order they were saved, each with
\* its counts.
ListTemplates ==
    /\ request' = [op |-> "list"]
    /\ op' = "list"
    /\ LET ids == SelectSeq(issued, LAMBDA id : id \in DOMAIN templates)
           list == [n \in DOMAIN ids |->
                       [id |-> templates[ids[n]].id, name |-> templates[ids[n]].name,
                        elementCount |-> Len(templates[ids[n]].template.elements),
                        sectionCount |-> Len(templates[ids[n]].template.sections)]]
       IN  response' = [status |-> 200,
                        body |-> [success |-> TRUE, templates |-> list,
                                  count |-> Len(list)]]
    /\ UNCHANGED <<templates, resumes, issued, nextRef>>
    /\ UNCHANGED OutsideServer

\* The JSON of a stored template.
TemplateJSON(templateData) ==
    [id |-> templateData.id, name |-> templateData.name,
     template |-> PlainDocument(templateData.template)]

\* GET /api/templates/:id
GetTemplate ==
    \E id \in TemplateRequestIds :
        /\ request' = [op |-> "get", id |-> id]
        /\ op' = "get"
        /\ IF id \notin DOMAIN templates
           THEN Reject(404, "Template not found")
           ELSE /\ response' = [status |-> 200,
                                body |-> [success |-> TRUE,
                                          template |-> TemplateJSON(templates[id])]]
                /\ UNCHANGED <<templates, resumes, issued, nextRef>>
        /\ UNCHANGED OutsideServer

\* DELETE /api/templates/:id
DeleteTemplate ==
    \E id \in TemplateRequestIds :
        /\ request' = [op |-> "delete", id |-> id]
        /\ op' = "delete"
        /\ templates' = MapDelete(templates, id)
        /\ response' = IF id \in DOMAIN templates
                       THEN [status |-> 200, body |-> [success |-> TRUE]]
                       ELSE [status |-> 404, body |-> [error |-> "Template not found"]]
        /\ UNCHANGED <<resumes, issued, nextRef>>
        /\ UNCHANGED OutsideServer

\* The filled elements and sections of a generate request: the clone of the
\* template, then elements.map and sections.map, each making one new object
\* per item.
FilledData(doc, ud, jd, next) ==
    LET clone == JSONClone(doc, next)
        base == next + ParseSize(doc.elements, doc.sections)
    IN  [elements |->
            [i \in DOMAIN clone.elements |->
                ShallowCopy(clone.elements[i], base + i - 1,
                            FillElement(clone.elements[i].val, ud, jd))],
         sections |->
            [j \in DOMAIN clone.sections |->
                ShallowCopy(clone.sections[j], base + Len(clone.elements) + j - 1,
                            FillSection(clone.sections[j].val, ud))]]

\* The identities FilledData uses up.
FilledSize(doc) == 3 * (Len(doc.elements) + Len(doc.sections))

\* The JSON of a stored resume.
ResumeJSON(resumeData) ==
    [resumeData EXCEPT !.filledData = PlainDocument(resumeData.filledData)]

\* POST /api/resume/generate, for a body of bodies
GenerateResumeFrom(bodies) ==
    \E body \in bodies :
        /\ request' = [op |-> "generate", body |-> body]
        /\ op' = "generate"
        /\ IF body.templateId = "" \/ body.userData = <<>>
           THEN Reject(400, "Missing required fields")
           ELSE IF body.templateId \notin DOMAIN templates
           THEN Reject(404, "Template not found")
           ELSE LET templateId == body.templateId
                    given == body.userData[1]
                    job == body.jobDescription
                    filled == FilledData(templates[templateId].template, given, job, nextRef)
                    atsAnalysis == calculateATSScore(given, Plain(filled.sections))
                    resumeId == generateId("resume", Len(issued) + 1)
                    resumeData ==
                        [id |-> resumeId, templateId |-> templateId, userData |-> given,
                         jobDescription |-> job, filledData |-> filled,
                         atsScore |-> atsAnalysis.score,
                         atsChecks |-> atsAnalysis.checks]
                IN  IF atsAnalysis.kind = "throw"
                    THEN Reject(500, "Failed to generate resume")
                    ELSE /\ Len(issued) < MaxIds
                         /\ resumes' = MapSet(resumes, resumeId, resumeData)
                         /\ issued' = Append(issued, resumeId)
                         /\ nextRef' = nextRef + FilledSize(templates[templateId].template)
                         /\ response' =
                                [status |-> 200,
                                 body |-> [success |-> TRUE, resumeId |-> resumeId,
                                           filledResume |-> PlainDocument(filled),
                                           atsScore |-> atsAnalysis.score,
                                           atsChecks |-> atsAnalysis.checks]]
                         /\ UNCHANGED templates
        /\ UNCHANGED OutsideServer

GenerateResume == GenerateResumeFrom(GenerateBodies)

\* GET /api/resume/:id
GetResume ==
    \E id \in ResumeRequestIds :
        /\ request' = [op |-> "resume", id |-> id]
        /\ op' = "resume"
        /\ IF id \notin DOMAIN resumes
           THEN Reject(404, "Resume not found")
           ELSE /\ response' = [status |-> 200,
                                body |-> [success |-> TRUE,
                                          resume |-> ResumeJSON(resumes[id])]]
                /\ UNCHANGED <<templates, resumes, issued, nextRef>>
        /\ UNCHANGED OutsideServer

varsServer == <<elements, sections, op, sorted, html, treeVars, scoreVars, serverVars, editorVars, printVars>>

NextServer ==
    \/ SaveTemplate
    \/ ListTemplates
    \/ GetTemplate
    \/ DeleteTemplate
    \/ GenerateResume
    \/ GetResume

SpecServer == InitServer /\ [][NextServer]_varsServer

\* ------------------------------------------------------------------ C12

\* C12: scoring never throws, so POST /api/resume/generate never answers 500,
\* whatever the stored template's sections look like.
C12_GenerateNeverFails ==
    op = "generate" => response.status # 500

\* ------------------------------------------------------------------ C13

\* Two stored resumes made from the same request body and the same template.
SameGenerate(r1, r2) ==
    /\ resumes[r1].templateId = resumes[r2].templateId
    /\ resumes[r1].userData = resumes[r2].userData
    /\ resumes[r1].jobDescription = resumes[r2].jobDescription

\* No object of a stored resume is an object of another stored resume or of a
\* stored template, and resumes of the same request are equal in content.
ResumesShareNothing ==
    /\ \A r1, r2 \in DOMAIN resumes :
        r1 # r2 =>
            /\ DocumentRefs(resumes[r1].filledData)
                   \cap DocumentRefs(resumes[r2].filledData) = {}
            /\ SameGenerate(r1, r2) =>
                   PlainDocument(resumes[r1].filledData)
                       = PlainDocument(resumes[r2].filledData)
    /\ \A r \in DOMAIN resumes, t \in DOMAIN templates :
        DocumentRefs(resumes[r].filledData)
            \cap DocumentRefs(templates[t].template) = {}

\* C13: a generate request leaves the template store as it was, and the
\* filled data it stores shares no object with another resume or a template
\* while being equal in content to that of an equal request.
C13_GenerateLeavesTemplate ==
    /\ []ResumesShareNothing
    /\ [][op' = "generate" => templates' = templates]_varsServer

\* Two resumes of the same request are stored, next to their template, which
\* holds a nested array.
C13_Witness ==
    \E r1, r2 \in DOMAIN resumes :
        /\ r1 # r2
        /\ SameGenerate(r1, r2)
        /\ resumes[r1].templateId \in DOMAIN templates
        /\ \E j \in DOMAIN templates[resumes[r1].templateId].template.sections :
            templates[resumes[r1].templateId].template.sections[j].inner # {}

\* ------------------------------------------------------------------ C14

\* The personal fields whose placeholder stands in content at i.
FieldsAt(content, i) ==
    {f \in Range(PersonalFields) : TokenAt(content, Placeholder[f], i)}

\* content with every personal placeholder, in any letter case, replaced by
\* the value of its field as it is, or by nothing when the field is absent;
\* all other text is kept.
LiteralFill(content, ud) ==
    Flatten([i \in DOMAIN content |->
        IF FieldsAt(content, i) # {}
        THEN OrElse(PersonalInfo(ud, CHOOSE f \in FieldsAt(content, i) : TRUE), <<>>)
        ELSE IF \E j \in 1..(i - 1) :
                   \E f \in FieldsAt(content, j) : i < j + Len(Placeholder[f])
        THEN <<>>
        ELSE <<content[i]>>])

\* C14: after a generate without job description, the content of every
\* element that has content and no summary placeholder is the template's
\* content with each personal placeholder replaced by the user's value.
C14_PlaceholdersReplacedByValue ==
    (op = "generate" /\ response.status = 200
        /\ request.body.jobDescription = <<>>) =>
        LET template == templates[request.body.templateId].template
            given == request.body.userData[1]
            filled == response.body.filledResume.elements
        IN  \A i \in DOMAIN filled :
                LET content == template.elements[i].val.content
                IN  (Truthy(content)
                        /\ \A k \in DOMAIN content :
                              ~TokenAt(content, Placeholder.summary, k)) =>
                        filled[i].content = LiteralFill(content, given)

\* ------------------------------------------------------------------ C15

\* The properties of a filled section that generation may have added.
Annotations == {"filled", "itemCount"}

\* filled is the template's object but for the properties in changed.
SameBut(filled, original, changed) ==
    /\ DOMAIN original \subseteq DOMAIN filled
    /\ DOMAIN filled \subseteq DOMAIN original \cup changed
    /\ \A f \in DOMAIN original \ changed : filled[f] = original[f]

\* C15: the filled data of a successful generate has the template's elements
\* and sections, one for one and in the same order, each as in the template
\* but for the element's content and the section's filled and itemCount.
C15_FilledKeepsStructure ==
    (op = "generate" /\ response.status = 200) =>
        LET template == PlainDocument(templates[request.body.templateId].template)
            filled == response.body.filledResume
        IN  /\ Len(filled.elements) = Len(template.elements)
            /\ Len(filled.sections) = Len(template.sections)
            /\ \A i \in DOMAIN filled.elements :
                SameBut(filled.elements[i], template.elements[i], {"content"})
            /\ \A j \in DOMAIN filled.sections :
                SameBut(filled.sections[j], template.sections[j], Annotations)
            /\ PlainDocument(resumes[response.body.resumeId].filledData) = filled

\* A generate that changed an element's content, annotated one section and
\* left another as it was.
C15_Witness ==
    /\ op = "generate"
    /\ response.status = 200
    /\ LET template == PlainDocument(templates[request.body.templateId].template)
           filled == response.body.filledResume
       IN  /\ \E i \in DOMAIN filled.elements :
                filled.elements[i].content # template.elements[i].content
           /\ \E j \in DOMAIN filled.sections :
                "filled" \in DOMAIN filled.sections[j]
           /\ \E j \in DOMAIN filled.sections :
                filled.sections[j] = template.sections[j]

\* ------------------------------------------------------------------ C16

\* The answers about a template id: GET answers 200 with the stored name and
\* template while the id is stored and 404 otherwise; after DELETE the id is
\* not stored; a generate that carries user data and names an id that is not
\* stored answers 404.
TemplateAnswers ==
    /\ op = "get" =>
        IF request.id \in DOMAIN templates
        THEN /\ response.status = 200
             /\ response.body.template = TemplateJSON(templates[request.id])
        ELSE response.status = 404
    /\ op = "delete" => request.id \notin DOMAIN templates
    /\ (op = "generate" /\ request.body.templateId # ""
            /\ request.body.userData # <<>>
            /\ request.body.templateId \notin DOMAIN templates) =>
        response.status = 404

\* How the template store changes in a step: an entry is never modified; one
\* comes in only by a save that answers 200 with an id never issued before,
\* under the name and with the template of the request; one goes only by a
\* DELETE of its id that answers 200, and a DELETE of an id that is not
\* stored answers 404.
TemplateSteps ==
    /\ \A id \in DOMAIN templates \cap DOMAIN templates' :
        templates'[id] = templates[id]
    /\ \A id \in DOMAIN templates' \ DOMAIN templates :
        /\ op' = "save"
        /\ response'.status = 200
        /\ response'.body.templateId = id
        /\ id \notin Range(issued)
        /\ templates'[id].name = request'.body.name
        /\ PlainDocument(templates'[id].template)
               = [elements |-> request'.body.template[1].elements[1],
                  sections |-> request'.body.template[1].sections[1]]
    /\ \A id \in DOMAIN templates \ DOMAIN templates' :
        /\ op' = "delete"
        /\ request'.id = id
        /\ response'.status = 200
    /\ (op' = "delete" /\ request'.id \notin DOMAIN templates) =>
        response'.status = 404

\* C16: a saved template is returned by GET, unchanged, from the save that
\* returned its id until the DELETE of that id that answers 200; from then on
\* the id is never stored again, so GET, DELETE and a generate that carries
\* user data answer 404 for it.
C16_TemplateLifecycle ==
    /\ []TemplateAnswers
    /\ [][TemplateSteps]_varsServer

\* A generate that names the id of a deleted template was answered 404.
C16_Witness ==
    /\ op = "generate"
    /\ request.body.templateId \in IssuedWith("template") \ DOMAIN templates
    /\ request.body.userData # <<>>
    /\ response.status = 404

\* ------------------------------------------------------------------ C17

\* C17: a request answered 400 or 404 leaves the template store and the
\* resume store as they were.
C17_RejectedChangesNothing ==
    [][response'.status \in {400, 404} =>
           (templates' = templates /\ resumes' = resumes)]_varsServer

\* A DELETE of an id that is not stored was answered 404 while a template and
\* a resume are stored.
C17_Witness ==
    /\ op = "delete"
    /\ response.status = 404
    /\ templates # <<>>
    /\ resumes # <<>>

\* ------------------------------------------------------------------ C18

\* The elements whose content a document shows, in the document's order, one
\* entry for each time the content is written.
ElementsRendered(doc) ==
    LET shown == SelectSeq(doc, LAMBDA piece : piece.kind = "val" /\ piece.field = "content")
    IN  [i \in DOMAIN shown |-> shown[i].of]

\* C18: for the same elements and sections, the enhanced server's document
\* shows the same elements, each as many times and in the same order, as the
\* print server's document.
C18_SameElementsAsPrintServer ==
    op = "serverPreview" =>
        ElementsRendered(html)
            = ElementsRendered(printServerHTML(elements, sections, "A4"))

\* ------------------------------------------------------------------ editor specification

\* Most elements, and most sections, in a document of the editor.
MaxEditorItems == 2

\* Most mouse moves handled in a run.
MaxMoves == 1

\* The ids of the editor's documents: those generateId gives elements and
\* sections, and one id, as a loaded template can carry, that an element and
\* a section share.
SharedId == "item-1"

EditorElementIds == <<{"el-1", SharedId}, {"el-2"}, {"el-3"}>>

EditorSectionIds == <<{"section-1", SharedId}, {"section-2"}, {"section-3"}>>

\* itemId.startsWith('section-'), over the ids above.
IsSectionId(id) == id \in {"section-1", "section-2", "section-3"}

\* The sections of an editor document: each at its own place, a later one at
\* top level or inside an earlier one.
EditorSectionLists ==
    UNION {{secs \in [1..n -> [id : UNION Range(EditorSectionIds),
                               parent : {NULL} \cup UNION Range(EditorSectionIds)]] :
               \A j \in 1..n :
                   /\ secs[j].id \in EditorSectionIds[j]
                   /\ secs[j].parent \in {NULL} \cup {secs[k].id : k \in 1..(j - 1)}} :
           n \in 0..MaxEditorItems}

\* The elements of an editor document whose sections have the ids in parents:
\* each at top level or inside one of the sections.
EditorElementLists(parents) ==
    UNION {{els \in [1..n -> [id : UNION Range(EditorElementIds),
                              parent : {NULL} \cup parents]] :
               \A i \in 1..n : els[i].id \in EditorElementIds[i]} :
           n \in 0..MaxEditorItems}

\* The height addSection gives a section.
SectionHeight == 150

InitEditor ==
    /\ \E secs \in EditorSectionLists :
        /\ sections = [j \in DOMAIN secs |->
                          [height |-> SectionHeight]
                              @@ [SectionAt(secs[j].id, 50, 200 * j)
                                     EXCEPT !.parentSection = secs[j].parent]]
        /\ \E els \in EditorElementLists({secs[j].id : j \in DOMAIN secs}) :
            elements = [i \in DOMAIN els |->
                           [ElementAt(els[i].id, 60, 200 * i + 50)
                               EXCEPT !.parentSection = els[i].parent]]
    /\ op = "init"
    /\ sorted = <<>>
    /\ html = <<>>
    /\ NoTraversal
    /\ NoScoring
    /\ NoServer
    /\ NoEditor
    /\ NoPrint

\* What the editor's handlers leave alone.
OutsideEditor == <<sorted, html, treeVars, scoreVars, serverVars, printVars>>

\* ResumeBuilder renders: its render reads selectedIds.length, which throws
\* once selectedIds is undefined; no error boundary catches it, so the editor
\* unmounts and its handlers are gone.
Mounted == selectedIds # Undefined

\* The ids of a list of items.
IdsOf(items) == {items[i].id : i \in DOMAIN items}

\* items.find(item => item.id === id)
Find(items, id) == items[CHOOSE i \in DOMAIN items :
                            items[i].id = id /\ \A k \in 1..(i - 1) : items[k].id # id]

\* handleSelectionChange(ids): the editing item of a single id is the element
\* with that id, or else the section with it.
EditingItemOf(ids) ==
    IF Len(ids) # 1 THEN NoItem
    ELSE IF ids[1] \in IdsOf(elements) THEN [kind |-> "item", id |-> ids[1], isSection |-> FALSE]
    ELSE IF ids[1] \in IdsOf(sections) THEN [kind |-> "item", id |-> ids[1], isSection |-> TRUE]
    ELSE editingItem

\* handleDragStart: the pressed item, or the selection when it holds the
\* pressed item, with the child elements and child sections of every selected
\* id that starts with section-.
ItemsToMove(id, selected) ==
    (IF id \in Range(selected) THEN Range(selected) ELSE {id})
    \cup UNION {{elements[i].id : i \in {k \in DOMAIN elements :
                                            elements[k].parentSection = selectedId}}
                \cup {sections[j].id : j \in {k \in DOMAIN sections :
                                                 sections[k].parentSection = selectedId}} :
                selectedId \in {sid \in Range(selected) : IsSectionId(sid)}}

\* handleDragStart: the initial position of every item to move that is found,
\* looked up among the sections for an id that starts with section- and among
\* the elements for any other id.
InitialPositions(itemsToMove) ==
    LET found == {itemId \in itemsToMove :
                     IF IsSectionId(itemId) THEN itemId \in IdsOf(sections)
                     ELSE itemId \in IdsOf(elements)}
    IN  [itemId \in found |->
            LET item == IF IsSectionId(itemId) THEN Find(sections, itemId)
                        ELSE Find(elements, itemId)
            IN  [x |-> item.x, y |-> item.y]]

\* The onElementMouseDown of the canvas, for the element or the section
\* pressed: handleSelectionChange([id]), then handleDragStart(e, id) with the
\* selection of the last render.
ItemMouseDown ==
    /\ Mounted
    /\ dragState = NoItem
    /\ \E kind \in {"element", "section"} :
        \E id \in IdsOf(IF kind = "element" THEN elements ELSE sections) :
            /\ op' = IF kind = "element" THEN "pressElement" ELSE "pressSection"
            /\ selectedIds' = <<id>>
            /\ editingItem' = EditingItemOf(<<id>>)
            /\ dragState' =
                  [kind |-> "drag",
                   itemsToMove |-> ItemsToMove(id, selectedIds),
                   initialPositions |-> InitialPositions(ItemsToMove(id, selectedIds))]
    /\ UNCHANGED <<elements, sections, moves>>
    /\ UNCHANGED OutsideEditor

\* The distances the mouse has moved since the press.
Deltas == {<<10, 30>>}

\* items.map(item => item.id === id ? { ...item, x, y } : item), for every id
\* of positions that the test picks.
MoveItems(items, positions, delta, section) ==
    [i \in DOMAIN items |->
        IF items[i].id \in DOMAIN positions /\ IsSectionId(items[i].id) = section
        THEN [items[i] EXCEPT !.x = positions[items[i].id].x + delta[1],
                              !.y = positions[items[i].id].y + delta[2]]
        ELSE items[i]]

\* handleMouseMove of a drag: every item with an initial position goes to
\* that position plus the delta (snapToGrid is off), a section for an id that
\* starts with section- and an element for any other id.
DragMouseMove ==
    /\ Mounted
    /\ dragState # NoItem
    /\ moves < MaxMoves
    /\ \E delta \in Deltas :
        /\ sections' = MoveItems(sections, dragState.initialPositions, delta, TRUE)
        /\ elements' = MoveItems(elements, dragState.initialPositions, delta, FALSE)
    /\ moves' = moves + 1
    /\ op' = "mouseMove"
    /\ UNCHANGED <<selectedIds, editingItem, dragState>>
    /\ UNCHANGED OutsideEditor

\* handleMouseUp of a drag
DragMouseUp ==
    /\ Mounted
    /\ dragState # NoItem
    /\ dragState' = NoItem
    /\ op' = "mouseUp"
    /\ UNCHANGED <<elements, sections, selectedIds, editingItem, moves>>
    /\ UNCHANGED OutsideEditor

\* items.filter(item => !idSet.has(item.id))
DeleteItems(items, ids) == SelectSeq(items, LAMBDA item : item.id \notin Range(ids))

\* The Delete or Backspace key with a selection: deleteElements(selectedIds),
\* deleteSections(selectedIds), clearSelection().
DeleteKey ==
    /\ Mounted
    /\ selectedIds # <<>>
    /\ elements' = DeleteItems(elements, selectedIds)
    /\ sections' = DeleteItems(sections, selectedIds)
    /\ selectedIds' = <<>>
    /\ op' = "deleteKey"
    /\ UNCHANGED <<editingItem, dragState, moves>>
    /\ UNCHANGED OutsideEditor

\* handleDelete, the drawer's delete: the same, and the drawer closes.
HandleDelete ==
    /\ Mounted
    /\ editingItem # NoItem
    /\ elements' = DeleteItems(elements, selectedIds)
    /\ sections' = DeleteItems(sections, selectedIds)
    /\ selectedIds' = <<>>
    /\ editingItem' = NoItem
    /\ op' = "handleDelete"
    /\ UNCHANGED <<dragState, moves>>
    /\ UNCHANGED OutsideEditor

\* useSelection selectAll(allIds): setSelectedIds(allIds)
selectAll(allIds) == allIds

\* Cmd/Ctrl+A outside a text field: selectAll?.(), with no argument, so
\* allIds is undefined.
SelectAllKey ==
    /\ Mounted
    /\ selectedIds' = selectAll(Undefined)
    /\ op' = "selectAll"
    /\ UNCHANGED <<elements, sections, editingItem, dragState, moves>>
    /\ UNCHANGED OutsideEditor

\* The y of the k-th section of a reordered list: 50, and below each section
\* its height and a spacing of 20.
RECURSIVE StackedY(_, _)
StackedY(reordered, k) ==
    IF k = 1 THEN 50
    ELSE StackedY(reordered, k - 1) + reordered[k - 1].height + 20

\* useSections autoReorderSections(draggedId, newY), on the sections prev.
autoReorderSections(prev, draggedId, newY) ==
    IF draggedId \notin IdsOf(prev) THEN prev
    ELSE LET draggedSection == Find(prev, draggedId)
             otherSections ==
                 ArraySort("y", SelectSeq(prev, LAMBDA sec :
                                    sec.id # draggedId /\ NoParent(sec)))
             above == {k \in DOMAIN otherSections : otherSections[k].y > newY}
             insertIndex == IF above = {} THEN Len(otherSections)
                            ELSE (CHOOSE k \in above : \A m \in above : k <= m) - 1
             reordered ==
                 SubSeq(otherSections, 1, insertIndex)
                 \o <<[draggedSection EXCEPT !.y = newY]>>
                 \o SubSeq(otherSections, insertIndex + 1, Len(otherSections))
         IN  [k \in DOMAIN reordered |->
                [reordered[k] EXCEPT !.y = StackedY(reordered, k),
                                     !.readingOrder = k]]

\* The y a section is dropped at.
DropYs == {0, 300}

\* A call of autoReorderSections for a section of the document.
AutoReorderSections ==
    /\ Mounted
    /\ \E draggedId \in IdsOf(sections), newY \in DropYs :
        sections' = autoReorderSections(sections, draggedId, newY)
    /\ op' = "autoReorder"
    /\ UNCHANGED <<elements, selectedIds, editingItem, dragState, moves>>
    /\ UNCHANGED OutsideEditor

varsEditor ==
    <<elements, sections, op, sorted, html, treeVars, scoreVars, serverVars, editorVars, printVars>>

NextEditor ==
    \/ ItemMouseDown
    \/ DragMouseMove
    \/ DragMouseUp
    \/ DeleteKey
    \/ HandleDelete
    \/ SelectAllKey
    \/ AutoReorderSections

SpecEditor == InitEditor /\ [][NextEditor]_varsEditor

\* ------------------------------------------------------------------ C19

\* The ids of the sections a step deletes.
DeletedSections == IdsOf(sections) \ IdsOf(sections')

\* C19: after the editor deletes sections, no remaining element and no
\* remaining section has a parentSection equal to the id of a deleted section.
C19_DeleteLeavesNoOrphan ==
    [][op' \in {"deleteKey", "handleDelete"} =>
          /\ \A i \in DOMAIN elements' : elements'[i].parentSection \notin DeletedSections
          /\ \A j \in DOMAIN sections' : sections'[j].parentSection \notin DeletedSections]_varsEditor

\* ------------------------------------------------------------------ C20

\* C20: an element and a section that share an id do not interfere: deleting
\* from the drawer while it edits an element deletes no section.
C20_ElementDeleteKeepsSections ==
    [][(op' = "handleDelete" /\ ~editingItem.isSection) => sections' = sections]_varsEditor

\* ------------------------------------------------------------------ C21

\* C21: top-level sections are emitted in the order of the reading-order
\* comparator: of two whose y differ by less than 20, the one with the smaller
\* x comes first.
C21_SectionsInReadingOrder ==
    op = "serverPreview" =>
        \A a, b \in DOMAIN sections :
            (/\ NoParent(sections[a]) /\ NoParent(sections[b])
             /\ Abs(sections[a].y - sections[b].y) < LINE_EPS
             /\ sections[a].x < sections[b].x) =>
                \A k \in PiecesOf(html, sections[a].id, "title"),
                   m \in PiecesOf(html, sections[b].id, "title") : k < m

\* ------------------------------------------------------------------ C23

\* None of the mapped style properties is set on the element.
NoStyleSet(el) == buildElementStyles(el) = <<>>

\* Where the document opens a style attribute on a tag of the element.
StyleAttributes(doc, id) ==
    {k \in PiecesOf(doc, id, "type") :
        k < Len(doc) /\ doc[k + 1] = Lit("-element\" style=\"")}

\* C23: the tag of an element on which no mapped style property is set
\* carries no style attribute.
C23_NoEmptyStyle ==
    op = "serverPreview" =>
        \A i \in DOMAIN elements :
            NoStyleSet(elements[i]) => StyleAttributes(html, elements[i].id) = {}

\* ------------------------------------------------------------------ comparator specification

\* Positions on three lines, each 15 from the next: neighbours are within the
\* same-line threshold and the outer two are not.
CompareYs == {100, 115, 130}

CompareInputs ==
    UNION {[1..n -> SortXs \X CompareYs] : n \in 2..MaxItems}

InitCompare ==
    /\ elements \in {SortDocument(ps) : ps \in CompareInputs}
    /\ sections = <<>>
    /\ op = "init"
    /\ sorted = <<>>
    /\ html = <<>>
    /\ NoTraversal
    /\ NoScoring
    /\ NoServer
    /\ NoEditor
    /\ NoPrint

\* The comparator of sortByReadingOrder, called on every pair of the
\* elements: the answers, by the places of the two elements.
CompareAll ==
    /\ op = "init"
    /\ sorted' = [i \in DOMAIN elements |->
                    [j \in DOMAIN elements |->
                        ReadingOrderCompare(elements[i], elements[j])]]
    /\ op' = "compare"
    /\ UNCHANGED <<elements, sections, html, treeVars, scoreVars, serverVars, editorVars, printVars>>

varsCompare == <<elements, sections, op, sorted, html, treeVars, scoreVars, serverVars, editorVars, printVars>>

NextCompare == CompareAll

SpecCompare == InitCompare /\ [][NextCompare]_varsCompare

\* ------------------------------------------------------------------ C24

\* Three items that straddle the threshold pairwise: a and b share a line, b
\* and c share a line, a and c do not; a is left of b, b left of c, and c is
\* above a.
Straddling(a, b, c) ==
    /\ Abs(a.y - b.y) < LINE_EPS
    /\ Abs(b.y - c.y) < LINE_EPS
    /\ Abs(c.y - a.y) >= LINE_EPS
    /\ a.x < b.x
    /\ b.x < c.x
    /\ c.y < a.y

\* The comparator placed the first before the second.
PlacedBefore(i, j) == sorted[i][j] < 0

\* C24: the reading-order comparator is not transitive: on three items that
\* straddle the threshold pairwise it places a before b, b before c and c
\* before a.
C24_ComparatorNotTransitive ==
    op = "compare" =>
        \A i, j, k \in DOMAIN elements :
            Straddling(elements[i], elements[j], elements[k]) =>
                PlacedBefore(i, j) /\ PlacedBefore(j, k) /\ PlacedBefore(k, i)

\* The comparator has answered on three such items, with a cycle.
C24_Witness ==
    /\ op = "compare"
    /\ \E i, j, k \in DOMAIN elements :
        /\ Straddling(elements[i], elements[j], elements[k])
        /\ PlacedBefore(i, j) /\ PlacedBefore(j, k) /\ PlacedBefore(k, i)

\* ------------------------------------------------------------------ C25

\* C25: Cmd/Ctrl+A selects everything: afterwards selectedIds holds the ids
\* of all elements and sections; and selectedIds is an array in every state.
C25_SelectAllSelectsEverything ==
    /\ selectedIds # Undefined
    /\ op = "selectAll" => Range(selectedIds) = IdsOf(elements) \cup IdsOf(sections)

\* ------------------------------------------------------------------ C29

\* The sections of a list with an id, counted.
CountOf(items, id) == Cardinality({k \in DOMAIN items : items[k].id = id})

\* C29: autoReorderSections keeps every section, nested ones included:
\* each is present afterwards with the same id.
C29_ReorderKeepsSections ==
    [][op' = "autoReorder" =>
          \A id \in IdsOf(sections) : CountOf(sections', id) = CountOf(sections, id)]_varsEditor

\* ------------------------------------------------------------------ C30

\* The places of the items a step moves.
MovedPlaces(items, after) ==
    {k \in DOMAIN items : after[k].x # items[k].x \/ after[k].y # items[k].y}

\* The places of the items with a parentSection.
PlacesIn(items, id) == {k \in DOMAIN items : items[k].parentSection = id}

\* C30: a drag moves exactly the pressed item and, when it is a section, its
\* direct child elements and child sections.  Stated for the first move after
\* a press, when the selection is the pressed item alone, and for an item
\* whose id no item of the other type shares.
C30_DragMovesPressedAndChildren ==
    [][(/\ op \in {"pressElement", "pressSection"}
        /\ op' = "mouseMove"
        /\ selectedIds[1] # SharedId) =>
          LET pressed == selectedIds[1]
          IN  IF op = "pressElement"
              THEN /\ MovedPlaces(elements, elements')
                        = {k \in DOMAIN elements : elements[k].id = pressed}
                   /\ MovedPlaces(sections, sections') = {}
              ELSE /\ MovedPlaces(elements, elements') = PlacesIn(elements, pressed)
                   /\ MovedPlaces(sections, sections')
                        = {k \in DOMAIN sections : sections[k].id = pressed}
                            \cup PlacesIn(sections, pressed)]_varsEditor

\* ------------------------------------------------------------------ C28

\* The personal fields whose placeholder stands in content, in any letter
\* case, and whose value is text that String.replace inserts as it is.
FieldsFilledIn(content, ud) ==
    {f \in Range(PersonalFields) :
        /\ Includes(toLowerCase(content), Placeholder[f])
        /\ Truthy(PersonalInfo(ud, f))
        /\ "$" \notin Range(PersonalInfo(ud, f))}

\* C28: substitution never re-reads text that came from the user: after a
\* generate without job description, the value put in for a placeholder of
\* the template stands in the filled content as the user gave it, placeholder
\* tokens inside it included.
C28_SubstitutedValueNotReread ==
    (op = "generate" /\ response.status = 200
        /\ request.body.jobDescription = <<>>) =>
        LET template == templates[request.body.templateId].template
            given == request.body.userData[1]
            filled == response.body.filledResume.elements
        IN  \A i \in DOMAIN filled :
                LET content == template.elements[i].val.content
                IN  Truthy(content) =>
                        \A f \in FieldsFilledIn(content, given) :
                            Includes(filled[i].content, PersonalInfo(given, f))

\* ------------------------------------------------------------------ print specification

\* An element of the documents sent for printing.
PrintElement(i, parent, content) ==
    [ElementAt(ElementIds[i], 50, 50 * i)
        EXCEPT !.content = content, !.parentSection = parent, !.fontSize = 12]

\* The documents of the print specification: a name placeholder above a
\* section with one element; and a single element.
PrintDocuments ==
    <<[elements |-> <<PrintElement(1, NULL, <<"{","n","a","m","e","}">>),
                      PrintElement(2, "s1", <<"J","S">>)>>,
       sections |-> <<SectionAt("s1", 50, 200)>>],
      [elements |-> <<PrintElement(1, NULL, <<"a","<","b">>)>>,
       sections |-> <<>>]>>

\* The bodies of POST /api/templates/save in the print specification.
PrintSaveBodies ==
    {[name |-> SavedName,
      template |-> <<[elements |-> <<PrintDocuments[1].elements>>,
                      sections |-> <<PrintDocuments[1].sections>>]>>]}

\* The bodies of POST /api/resume/generate in the print specification.
PrintGenerateBodies ==
    {[templateId |-> id, userData |-> <<FullUserData>>, jobDescription |-> <<>>] :
        id \in TemplateRequestIds}

\* The bodies of POST /api/resume/preview: a document and a format, or no
\* elements.
PreviewBodies ==
    {[elements |-> <<PrintDocuments[k].elements>>,
      sections |-> <<PrintDocuments[k].sections>>, format |-> format] :
        k \in DOMAIN PrintDocuments, format \in Formats}
    \cup {[elements |-> <<>>, sections |-> <<PrintDocuments[1].sections>>,
           format |-> "A4"]}

\* The bodies of POST /api/resume/print: a resume id, a document, or neither.
PrintBodies ==
    {[resumeId |-> id, elements |-> <<>>, sections |-> <<>>] : id \in ResumeRequestIds}
    \cup {[resumeId |-> "", elements |-> <<PrintDocuments[2].elements>>,
           sections |-> <<PrintDocuments[2].sections>>],
          [resumeId |-> "", elements |-> <<PrintDocuments[2].elements>>,
           sections |-> <<>>]}

InitPrint ==
    /\ elements = <<>>
    /\ sections = <<>>
    /\ op = "init"
    /\ sorted = <<>>
    /\ html = <<>>
    /\ NoTraversal
    /\ NoScoring
    /\ NoServer
    /\ NoEditor
    /\ NoPrint

\* What the print and preview handlers leave alone.
OutsidePrint == <<elements, sections, sorted, html, treeVars, scoreVars, editorVars>>

PrintSaveTemplate == SaveTemplateFrom(PrintSaveBodies)

PrintGenerateResume == GenerateResumeFrom(PrintGenerateBodies)

\* POST /api/resume/preview
Preview ==
    \E body \in PreviewBodies :
        /\ request' = [op |-> "preview", body |-> body]
        /\ op' = "preview"
        /\ IF body.elements = <<>> \/ body.sections = <<>>
           THEN /\ Reject(400, "Missing required data")
                /\ UNCHANGED firstRender
           ELSE LET page == generateResumeHTML(body.elements[1], body.sections[1],
                                               body.format)
                IN  /\ response' = [status |-> 200, body |-> [html |-> page]]
                    /\ firstRender' =
                          IF firstRender = NoItem
                          THEN [kind |-> "render", elements |-> body.elements[1],
                                sections |-> body.sections[1],
                                format |-> body.format, html |-> page,
                                at |-> Len(issued)]
                          ELSE firstRender
                    /\ UNCHANGED <<templates, resumes, issued, nextRef>>
        /\ UNCHANGED printJob
        /\ UNCHANGED OutsidePrint

\* A close that leaves the browser as it is.
browserCloseNot(browser) == browser

\* await browser.close(), when it resolves: the browser is closed.
browserClose(browser) == "closed"

\* The handler is not waiting for the browser.
PrintIdle == IF printJob = NoItem THEN TRUE ELSE printJob.pc = "done"

\* The awaits between the launch and the close, in order.
PageSteps == <<"newPage", "setContent", "setViewport", "pdf">>

\* POST /api/resume/print up to its first await: the resume is looked up and
\* the document rendered, then puppeteer.launch is called.
PrintRequest ==
    \E body \in PrintBodies :
        /\ request' = [op |-> "print", body |-> body]
        /\ op' = "print"
        /\ IF body.resumeId # "" /\ body.resumeId \notin DOMAIN resumes
           THEN /\ Reject(404, "Resume not found")
                /\ UNCHANGED printJob
           ELSE LET stored == body.resumeId # ""
                    elementsGiven ==
                        IF stored
                        THEN <<Plain(resumes[body.resumeId].filledData.elements)>>
                        ELSE body.elements
                    sectionsGiven ==
                        IF stored
                        THEN <<Plain(resumes[body.resumeId].filledData.sections)>>
                        ELSE body.sections
                IN  IF elementsGiven = <<>> \/ sectionsGiven = <<>>
                    THEN /\ Reject(400, "Missing required data")
                         /\ UNCHANGED printJob
                    ELSE /\ PrintIdle
                         /\ printJob' =
                               [kind |-> "job", pc |-> "launch", request |-> request',
                                local |-> NULL, browser |-> "none", sent |-> FALSE,
                                html |-> generateResumeHTML(elementsGiven[1],
                                                            sectionsGiven[1], "A4")]
                         /\ response' = [status |-> 0]
                         /\ UNCHANGED <<templates, resumes, issued, nextRef>>
        /\ UNCHANGED firstRender
        /\ UNCHANGED OutsidePrint

\* The handler answers and returns.
PrintRespond(status, body, local, browser) ==
    /\ request' = printJob.request
    /\ response' = [status |-> status, body |-> body]
    /\ printJob' = [printJob EXCEPT !.pc = "done", !.local = local, !.browser = browser,
                                    !.sent = TRUE]

\* puppeteer.launch settles: the browser is open, or the launch is rejected
\* and the catch block, with browser still null, answers 500.
PrintLaunch ==
    /\ ~PrintIdle
    /\ printJob.pc = "launch"
    /\ op' = "printLaunch"
    /\ \/ /\ printJob' = [printJob EXCEPT !.pc = PageSteps[1], !.local = "browser",
                                           !.browser = "open"]
          /\ UNCHANGED <<request, response>>
       \/ PrintRespond(500, [error |-> "Failed to generate PDF"], NULL, "none")
    /\ UNCHANGED <<templates, resumes, issued, nextRef, firstRender>>
    /\ UNCHANGED OutsidePrint

\* One of newPage, setContent, setViewport and pdf settles: the handler goes
\* on, or the await throws and the catch block calls browser.close().
PrintPage ==
    /\ ~PrintIdle
    /\ \E k \in DOMAIN PageSteps :
        /\ printJob.pc = PageSteps[k]
        /\ \/ printJob' = [printJob EXCEPT !.pc = IF k < Len(PageSteps)
                                                  THEN PageSteps[k + 1] ELSE "close"]
           \/ printJob' = [printJob EXCEPT !.pc = "catch"]
    /\ op' = "printPage"
    /\ UNCHANGED <<templates, resumes, issued, nextRef, request, response, firstRender>>
    /\ UNCHANGED OutsidePrint

\* await browser.close() of the try block settles: browser = null and the PDF
\* is sent, or sending throws and the catch block, with browser null, answers
\* 500; or the close is rejected and the catch block calls browser.close().
PrintClose ==
    /\ ~PrintIdle
    /\ printJob.pc = "close"
    /\ op' = "printClose"
    /\ \/ PrintRespond(200, [pdf |-> printJob.html], NULL, browserClose(printJob.browser))
       \/ PrintRespond(500, [error |-> "Failed to generate PDF"], NULL,
                       browserClose(printJob.browser))
       \/ /\ printJob' = [printJob EXCEPT !.pc = "catch"]
          /\ UNCHANGED <<request, response>>
    /\ UNCHANGED <<templates, resumes, issued, nextRef, firstRender>>
    /\ UNCHANGED OutsidePrint

\* await browser.close() of the catch block settles: 500 is answered; or the
\* close is rejected, the handler's promise is rejected and nothing is sent.
PrintCatch ==
    /\ ~PrintIdle
    /\ printJob.pc = "catch"
    /\ op' = "printCatch"
    /\ \/ PrintRespond(500, [error |-> "Failed to generate PDF"], printJob.local,
                       browserClose(printJob.browser))
       \/ /\ printJob' = [printJob EXCEPT !.pc = "done"]
          /\ UNCHANGED <<request, response>>
    /\ UNCHANGED <<templates, resumes, issued, nextRef, firstRender>>
    /\ UNCHANGED OutsidePrint

varsPrint ==
    <<elements, sections, op, sorted, html, treeVars, scoreVars, serverVars, editorVars,
      printVars>>

NextPrint ==
    \/ PrintSaveTemplate
    \/ DeleteTemplate
    \/ PrintGenerateResume
    \/ GetResume
    \/ PrintRequest
    \/ PrintLaunch
    \/ PrintPage
    \/ PrintClose
    \/ PrintCatch

SpecPrint == InitPrint /\ [][NextPrint]_varsPrint

\* ------------------------------------------------------------------ preview specification

NextPreview ==
    \/ PrintSaveTemplate
    \/ DeleteTemplate
    \/ PrintGenerateResume
    \/ GetResume
    \/ Preview

SpecPreview == InitPrint /\ [][NextPreview]_varsPrint

\* ------------------------------------------------------------------ C22

\* The request renders what the first rendering request of the run rendered.
SameAsFirstRender ==
    /\ firstRender # NoItem
    /\ request.body.elements = <<firstRender.elements>>
    /\ request.body.sections = <<firstRender.sections>>
    /\ request.body.format = firstRender.format

ResumesKept ==
    \A id \in DOMAIN resumes : id \in DOMAIN resumes' /\ resumes'[id] = resumes[id]

\* What a generate answers as the filled resume is what it stores.
GenerateStoresAnswer ==
    (op' = "generate" /\ response'.status = 200) =>
        PlainDocument(resumes'[response'.body.resumeId].filledData)
            = response'.body.filledResume

\* A print by resumeId renders the filled data stored under the id.
PrintRendersStored ==
    (op' = "print" /\ response'.status = 0 /\ request'.body.resumeId # "") =>
        printJob'.html =
            generateResumeHTML(
                Plain(resumes[request'.body.resumeId].filledData.elements),
                Plain(resumes[request'.body.resumeId].filledData.sections), "A4")

\* GET /api/resume/:id answers the resume stored under the id.
GetAnswersStored ==
    (op = "resume" /\ response.status = 200) =>
        response.body.resume = ResumeJSON(resumes[request.id])

\* C26: a generated resume does not depend on what later happens to its
\* template: no request changes or removes a stored resume, the data stored
\* is the filled data the generate answered, and GET /api/resume/:id and
\* print by resumeId read the stored data, whether or not the template is
\* still stored.
C26_ResumeOutlivesTemplate ==
    /\ []GetAnswersStored
    /\ [][ResumesKept /\ GenerateStoresAnswer /\ PrintRendersStored]_varsPrint

\* A resume whose template has been deleted, with another template saved
\* since, has been fetched.
C26_Witness ==
    /\ op = "resume"
    /\ response.status = 200
    /\ resumes[request.id].templateId \notin DOMAIN templates
    /\ DOMAIN templates # {}
    /\ response.body.resume = ResumeJSON(resumes[request.id])

\* ------------------------------------------------------------------ C27

\* The print handler has answered its request.
PrintAnswered == IF printJob = NoItem THEN FALSE ELSE printJob.sent

====
